---- MODULE Spec2Model ----
(***************************************************************************)
(* A model of the session lifecycle of ThermiaOnlineAPI.api.ThermiaAPI:    *)
(* the token store, the Authenticator (__authenticate with its refresh and *)
(* credential paths), the session validity guard (__check_token_validity)  *)
(* and the authenticated Device API operations that run behind the guard.  *)
(*                                                                         *)
(* Time is counted in hours (datetime.now().timestamp() scaled), so the    *)
(* "timedelta(hours=6)" of the source is the number 6.  The remote servers *)
(* are the environment: every HTTP response an operation reads is drawn    *)
(* from a small set of responses at the place where the source issues the  *)
(* request, so an operator that contains a request is set-valued (the set  *)
(* of ways the call can end).                                              *)
(***************************************************************************)
EXTENDS Integers, Sequences, FiniteSets, TLC

VARIABLES
    phase,                      \* "new" | "ready" | "failed": before / after __init__
    email,                      \* self.__email
    password,                   \* self.__password
    access_token,               \* self.__access_token
    refresh_token,              \* self.__refresh_token
    token_expires_on,           \* self.__token_expires_on
    refresh_token_expires_on,   \* self.__refresh_token_expires_on
    Authorization,              \* self.__default_request_headers["Authorization"]
    authenticated,              \* self.authenticated
    now,                        \* the wall clock, datetime.now().timestamp()
    last,                       \* what the most recent call did (history)
    register_indexes,           \* the device's cache, device.get_register_indexes()
    fetch,                      \* what the most recent call of the register layer did (history)
    callers                     \* the calls of concurrent callers in progress: where each is, and its local variables

vars == <<phase, email, password, access_token, refresh_token, token_expires_on,
          refresh_token_expires_on, Authorization, authenticated, now, last,
          register_indexes, fetch, callers>>

----------------------------------------------------------------------------
(* Bounds of the model *)

\* the clock runs from 1 to MaxNow
MaxNow == 7
\* the longest time the requests of one Authenticator run may take
MaxLag == 1
\* the longest register group the Device API returns
MaxGroupLen == 2

----------------------------------------------------------------------------
(* Values *)

\* Python's None, for the string-valued fields
None == "<None>"
\* Python's None, for the two expiry fields
NoneTime == -1
\* the only status the source accepts anywhere
HTTP_OK == 200
\* timedelta(hours=6)
REFRESH_TOKEN_LIFETIME == 6

\* "if x:" on a str-or-None value
\* variant: only None is false, the empty string counts as a value
Truthy_EmptyCounts(v) == v # None

Truthy(v) == v # None /\ v # ""
\* "if x:" on an int-or-None value
TruthyNum(n) == n # NoneTime /\ n # 0

Min(a, b) == IF a <= b THEN a ELSE b

Digit == <<"0", "1", "2", "3", "4", "5", "6", "7", "8", "9">>
DigitChars == {Digit[i] : i \in 1..10}
DigitValue(c) == (CHOOSE i \in 1..10 : Digit[i] = c) - 1

\* str(n) of a non-negative int: its decimal digits
RECURSIVE StrOfInt(_)
StrOfInt(n) ==
    IF n < 10 THEN <<Digit[n + 1]>>
    ELSE Append(StrOfInt(n \div 10), Digit[(n % 10) + 1])

\* whether int(chars) returns (a non-empty run of decimal digits) or raises ValueError
IsDecimal(chars) == Len(chars) > 0 /\ \A i \in 1..Len(chars) : chars[i] \in DigitChars

\* variant: only the last digit is read
IntOfStr_LastDigit(chars) == DigitValue(chars[Len(chars)])

\* int(chars) of a decimal string
RECURSIVE IntOfStr(_)
IntOfStr(chars) ==
    IF Len(chars) = 0 THEN 0
    ELSE 10 * IntOfStr(SubSeq(chars, 1, Len(chars) - 1)) + DigitValue(chars[Len(chars)])

\* the index of the first sep in chars, 0 when there is none
FirstIndex(chars, sep) ==
    IF \E i \in 1..Len(chars) : chars[i] = sep
    THEN CHOOSE i \in 1..Len(chars) : chars[i] = sep /\ \A j \in 1..(i - 1) : chars[j] # sep
    ELSE 0

\* chars.split(sep): the pieces between the occurrences of sep
RECURSIVE Split(_, _)
Split(chars, sep) ==
    LET i == FirstIndex(chars, sep)
    IN  IF i = 0 THEN <<chars>>
        ELSE <<SubSeq(chars, 1, i - 1)>> \o Split(SubSeq(chars, i + 1, Len(chars)), sep)

\* utils.get_list_value_or_default(list, index, default), index counted from 0
GetListValueOrDefault(list, index, default) ==
    IF index < Len(list) THEN list[index + 1] ELSE default

\* the values of "expires_on" in a token response: an int or a str
NoExpiresOn == [kind |-> "absent", n |-> 0, chars |-> <<>>]
IntExpiresOn(n) == [kind |-> "int", n |-> n, chars |-> <<>>]
StrExpiresOn(chars) == [kind |-> "str", n |-> 0, chars |-> chars]

\* json.loads(...) returned no dict / the function returned None
NoneResponse == [none |-> TRUE]

----------------------------------------------------------------------------
(* The environment: what the servers may answer *)

\* a status other than 200 that the transport hands back (not in its retry list)
StatusCodes == {HTTP_OK, 400}

\* a token response body that is a JSON object; a key not in keys is missing
TokenJson(k, a, r, e) ==
    [keys |-> k,
     access_token |-> IF "access_token" \in k THEN a ELSE "",
     refresh_token |-> IF "refresh_token" \in k THEN r ELSE "",
     expires_on |-> IF "expires_on" \in k THEN e ELSE NoExpiresOn]

TokenKeys == {"access_token", "refresh_token", "expires_on"}

\* the expires_on values the token endpoint may send at time t: already past or
\* still ahead, as a number or as a string, or a string that is no number
ExpiresOnValues(t) ==
    { IntExpiresOn(t - 1), IntExpiresOn(t + 3),
      StrExpiresOn(StrOfInt(t + 3)), StrExpiresOn(<<"x">>) }

\* the JSON objects the token endpoint may send at time t: tokens "A1" and "R1"
\* with refresh_token or expires_on or both missing, or without access_token,
\* or with an empty access_token
TokenJsonObjects(t) ==
    { TokenJson(k \cup {"access_token"}, "A1", "R1", e) :
        k \in SUBSET {"refresh_token", "expires_on"}, e \in ExpiresOnValues(t) }
    \cup { TokenJson(TokenKeys \ {"access_token"}, "A1", "R1", IntExpiresOn(t + 3)) }
    \cup { TokenJson(TokenKeys, "", "R1", IntExpiresOn(t + 3)) }

NoJson == [keys |-> {}, access_token |-> "", refresh_token |-> "", expires_on |-> NoExpiresOn]

\* the responses of the token endpoint: a status and a text that is JSON or not
TokenHttpResponses(t) ==
    {[status_code |-> 400, parseable |-> FALSE, json |-> NoJson]}
    \cup {[status_code |-> HTTP_OK, parseable |-> FALSE, json |-> NoJson]}
    \cup {[status_code |-> HTTP_OK, parseable |-> TRUE, json |-> j] : j \in TokenJsonObjects(t)}

\* transId values of the SETTINGS blob, as sequences of characters: with one
\* "=", with two, with none
TransIds == { <<"S", "=", "a">>, <<"S", "=", "a", "=", "b">>, <<"S">> }

NoSettings == [keys |-> {}, transId |-> <<>>, csrf |-> ""]

SettingsObjects ==
    { [keys |-> k,
       transId |-> IF "transId" \in k THEN x ELSE <<>>,
       csrf |-> IF "csrf" \in k THEN "tok" ELSE ""] :
         k \in SUBSET {"transId", "csrf"}, x \in TransIds }

\* the responses of the authorize endpoint: has_marker says whether the text holds
\* "var SETTINGS = ", parseable whether what follows it is JSON
AuthorizeResponses ==
    {[status_code |-> 400, has_marker |-> FALSE, parseable |-> FALSE, settings |-> NoSettings]}
    \cup {[status_code |-> HTTP_OK, has_marker |-> FALSE, parseable |-> FALSE, settings |-> NoSettings]}
    \cup {[status_code |-> HTTP_OK, has_marker |-> TRUE, parseable |-> FALSE, settings |-> NoSettings]}
    \cup {[status_code |-> HTTP_OK, has_marker |-> TRUE, parseable |-> TRUE, settings |-> o] :
            o \in SettingsObjects}

\* the responses of the self-asserted endpoint: status_400_marker says whether the
\* text holds {"status":"400"
SelfAssertedResponses ==
    { [status_code |-> HTTP_OK, status_400_marker |-> FALSE],
      [status_code |-> HTTP_OK, status_400_marker |-> TRUE],
      [status_code |-> 400, status_400_marker |-> FALSE] }

\* the final URL of the confirm request, as a sequence of pieces of text
ConfirmResponses == { [url |-> <<"cb?">>], [url |-> <<"cb?", "code=", "XYZ">>] }

----------------------------------------------------------------------------
(* The session object and the requests it sends *)

\* the fields of the ThermiaAPI object
Self ==
    [email |-> email, password |-> password,
     access_token |-> access_token, refresh_token |-> refresh_token,
     token_expires_on |-> token_expires_on,
     refresh_token_expires_on |-> refresh_token_expires_on,
     Authorization |-> Authorization, authenticated |-> authenticated]

\* one request of self.__session and the response it got
Sent(req, resp) == [req |-> req, resp |-> resp]

RefreshTokenRequest(s) ==
    [ep |-> "token", method |-> "POST", grant_type |-> "refresh_token",
     refresh_token |-> s.refresh_token]

\* utils.generate_challenge(length): the random string this call of the
\* generator returns
GenerateChallenge(length) == [generated |-> "by this call", length |-> length]

\* hashlib.sha256(text.encode("utf-8")).digest() and utils.base64_url_encode
Sha256(text) == [sha256 |-> text]
Base64UrlEncode(bytes) == [base64url |-> bytes]

\* the local variable code_challenge of __authenticate_with_credentials: the
\* PKCE verifier of the login
code_challenge == GenerateChallenge(43)

AuthorizeRequest(s) ==
    [ep |-> "authorize", method |-> "GET",
     code_challenge |-> Base64UrlEncode(Sha256(code_challenge)),
     code_challenge_method |-> "S256"]

SelfAssertedRequest(s, state_code, csrf_token) ==
    [ep |-> "self_asserted", method |-> "POST",
     signInName |-> s.email, password |-> s.password,
     tx |-> <<"StateProperties=">> \o state_code, csrf |-> csrf_token]

ConfirmRequest(state_code, csrf_token) ==
    [ep |-> "confirm", method |-> "GET",
     tx |-> <<"StateProperties=">> \o state_code, csrf |-> csrf_token]

\* variant: the challenge sent to the authorize endpoint is posted again
AuthorizationCodeRequest_PostsChallenge(code) ==
    [ep |-> "token", method |-> "POST", grant_type |-> "authorization_code",
     code |-> code, code_verifier |-> Base64UrlEncode(Sha256(code_challenge))]

AuthorizationCodeRequest(code) ==
    [ep |-> "token", method |-> "POST", grant_type |-> "authorization_code",
     code |-> code, code_verifier |-> code_challenge]

DeviceRequest(op, header) ==
    [ep |-> "device", op |-> op, Authorization |-> header]

ConfigRequest == [ep |-> "config", method |-> "GET"]

\* the endpoints of the login service
AuthEndpoints == {"token", "authorize", "self_asserted", "confirm"}

----------------------------------------------------------------------------
(* ThermiaAPI.__update_authorization_header *)

\* variant: the header is never rewritten
UpdateAuthorizationHeader_NotRewritten(s) == s

UpdateAuthorizationHeader(s) ==
    IF Truthy(s.access_token)
    THEN [s EXCEPT !.Authorization = "Bearer " \o s.access_token]
    ELSE s

----------------------------------------------------------------------------
(* ThermiaAPI.__authenticate_refresh_token *)

\* variant: the rejected refresh token is kept
ClearTokens_KeepsRefreshToken(s) ==
    [s EXCEPT !.access_token = None,
              !.token_expires_on = NoneTime, !.refresh_token_expires_on = NoneTime]

\* "Clear invalid tokens"
ClearTokens(s) ==
    [s EXCEPT !.access_token = None, !.refresh_token = None,
              !.token_expires_on = NoneTime, !.refresh_token_expires_on = NoneTime]

\* what the function does with the response r of its POST
RefreshTokenResult(s, r) ==
    IF r.status_code # HTTP_OK
    THEN [s |-> ClearTokens(s), ret |-> NoneResponse,
          reqs |-> <<Sent(RefreshTokenRequest(s), r)>>]
    ELSE IF ~r.parseable
    THEN [s |-> s, ret |-> NoneResponse, reqs |-> <<Sent(RefreshTokenRequest(s), r)>>]
    ELSE [s |-> s, ret |-> r.json, reqs |-> <<Sent(RefreshTokenRequest(s), r)>>]

\* the ways the function can end when called at time t
AuthenticateRefreshToken(s, t) ==
    IF ~Truthy(s.refresh_token)
    THEN {[s |-> s, ret |-> NoneResponse, reqs |-> <<>>]}
    ELSE {RefreshTokenResult(s, r) : r \in TokenHttpResponses(t)}

----------------------------------------------------------------------------
(* ThermiaAPI.__authenticate_with_credentials *)

Raised(exc, reqs) == [exc |-> exc, ret |-> NoneResponse, reqs |-> reqs]
Returned(ret, reqs) == [exc |-> "", ret |-> ret, reqs |-> reqs]

\* the state code and csrf token read from the authorize response, or the
\* exception that reading them raises
ParseAuthorizeResponse(ra) ==
    IF ra.status_code = HTTP_OK
    THEN IF ~ra.has_marker
         THEN [exc |-> "IndexError", state_code |-> <<>>, csrf_token |-> ""]
         ELSE IF \/ ~ra.parseable
                 \/ "transId" \notin ra.settings.keys
                 \/ Len(Split(ra.settings.transId, "=")) < 2
                 \/ "csrf" \notin ra.settings.keys
         THEN [exc |-> "NetworkException", state_code |-> <<>>, csrf_token |-> ""]
         ELSE [exc |-> "", state_code |-> Split(ra.settings.transId, "=")[2],
               csrf_token |-> ra.settings.csrf]
    ELSE [exc |-> "NetworkException", state_code |-> <<>>, csrf_token |-> ""]

\* variant: every failure of the token step is an AuthenticationException
CredentialsTokenResult_OneException(reqs, rt) ==
    IF rt.status_code # HTTP_OK \/ ~rt.parseable
    THEN Raised("AuthenticationException", reqs)
    ELSE Returned(rt.json, reqs)

\* the end of the login: the response rt of the token POST
CredentialsTokenResult(reqs, rt) ==
    IF rt.status_code # HTTP_OK THEN Raised("AuthenticationException", reqs)
    ELSE IF ~rt.parseable THEN Raised("NetworkException", reqs)
    ELSE Returned(rt.json, reqs)

\* from the confirm response rc on
CredentialsAfterConfirmed(s, t, reqs, rc) ==
    LET code == GetListValueOrDefault(Split(rc.url, "code="), 1, <<>>)
    IN  { CredentialsTokenResult(
              Append(reqs, Sent(AuthorizationCodeRequest(code), rt)), rt) :
            rt \in TokenHttpResponses(t) }

\* variant: the text of a 200 response is not searched for the marker
CredentialsAfterSelfAsserted_IgnoresMarker(s, t, reqs, p, rs) ==
    IF rs.status_code # HTTP_OK
    THEN {Raised("AuthenticationException", reqs)}
    ELSE UNION { CredentialsAfterConfirmed(s, t,
                     Append(reqs, Sent(ConfirmRequest(p.state_code, p.csrf_token), rc)),
                     rc) :
                   rc \in ConfirmResponses }

\* from the self-asserted response rs on
CredentialsAfterSelfAsserted(s, t, reqs, p, rs) ==
    IF rs.status_code # HTTP_OK \/ rs.status_400_marker
    THEN {Raised("AuthenticationException", reqs)}
    ELSE UNION { CredentialsAfterConfirmed(s, t,
                     Append(reqs, Sent(ConfirmRequest(p.state_code, p.csrf_token), rc)),
                     rc) :
                   rc \in ConfirmResponses }

\* from the authorize response ra on
CredentialsAfterAuthorize(s, t, ra) ==
    LET p == ParseAuthorizeResponse(ra)
    IN  IF p.exc # ""
        THEN {Raised(p.exc, <<Sent(AuthorizeRequest(s), ra)>>)}
        ELSE UNION { CredentialsAfterSelfAsserted(s, t,
                         <<Sent(AuthorizeRequest(s), ra),
                           Sent(SelfAssertedRequest(s, p.state_code, p.csrf_token), rs)>>,
                         p, rs) :
                       rs \in SelfAssertedResponses }

\* variant: an authorize request answered with a status other than 200 is sent
\* once more
AuthenticateWithCredentials_RetriesAuthorize(s, t) ==
    IF ~Truthy(s.email) \/ ~Truthy(s.password)
    THEN {Raised("AuthenticationException", <<>>)}
    ELSE UNION { IF ra.status_code # HTTP_OK
                 THEN { [x EXCEPT !.reqs = <<Sent(AuthorizeRequest(s), ra)>> \o @] :
                          x \in UNION { CredentialsAfterAuthorize(s, t, rb) :
                                          rb \in AuthorizeResponses } }
                 ELSE CredentialsAfterAuthorize(s, t, ra) :
                   ra \in AuthorizeResponses }

\* the ways the function can end when called at time t
AuthenticateWithCredentials(s, t) ==
    IF ~Truthy(s.email) \/ ~Truthy(s.password)
    THEN {Raised("AuthenticationException", <<>>)}
    ELSE UNION { CredentialsAfterAuthorize(s, t, ra) : ra \in AuthorizeResponses }

----------------------------------------------------------------------------
(* ThermiaAPI.__authenticate *)

\* how a run of the Authenticator (or the guard around it) ends: the object's
\* fields, the exception raised ("" when none), the requests sent in order, the
\* token response that was stored, whether the Authenticator ran, and the
\* clock when it ended
AuthResult(s, exc, reqs, token_response, ran, t_end) ==
    [s |-> s, exc |-> exc, reqs |-> reqs, token_response |-> token_response,
     ran |-> ran, t_end |-> t_end]

\* variant: the comparison with the clock is the wrong way round
RefreshAttempted_ExpiryReversed(s, t) ==
    /\ Truthy(s.refresh_token)
    /\ (s.refresh_token_expires_on = NoneTime \/ s.refresh_token_expires_on < t)

\* variant: the recorded refresh expiry is not looked at
RefreshAttempted_IgnoresExpiry(s, t) == Truthy(s.refresh_token)

\* variant: a refresh token without a recorded expiry is not tried
RefreshAttempted_RequiresExpiry(s, t) ==
    /\ Truthy(s.refresh_token)
    /\ s.refresh_token_expires_on # NoneTime
    /\ s.refresh_token_expires_on > t

\* "Try refresh token first if available and potentially valid"
RefreshAttempted(s, t) ==
    /\ Truthy(s.refresh_token)
    /\ (s.refresh_token_expires_on = NoneTime \/ s.refresh_token_expires_on > t)

\* "Update token information": the assignments up to the first exception; ts
\* is the clock when the refresh expiry is set
UpdateTokenInformation(s, token_response, ts) ==
    IF "access_token" \notin token_response.keys
    THEN [s |-> s, exc |-> "KeyError"]
    ELSE
      LET s1 == [s EXCEPT !.access_token = token_response.access_token,
                          !.refresh_token =
                              IF "refresh_token" \in token_response.keys
                              THEN token_response.refresh_token
                              ELSE s.refresh_token]
          expires_on == token_response.expires_on
      IN  IF "expires_on" \notin token_response.keys
          THEN [s |-> s1, exc |-> "KeyError"]
          ELSE IF expires_on.kind = "str" /\ ~IsDecimal(expires_on.chars)
          THEN [s |-> s1, exc |-> "ValueError"]
          ELSE [s |-> UpdateAuthorizationHeader(
                        [s1 EXCEPT !.token_expires_on =
                                       IF expires_on.kind = "str"
                                       THEN IntOfStr(expires_on.chars)
                                       ELSE expires_on.n,
                                   !.refresh_token_expires_on =
                                       ts + REFRESH_TOKEN_LIFETIME]),
                exc |-> ""]

\* variant: the clock is read before the requests are sent
StoreTokenResponse_ClockAtStart(s, token_response, reqs, t) ==
    { LET u == UpdateTokenInformation(s, token_response, t)
      IN  AuthResult(u.s, u.exc, reqs, token_response, TRUE, ts) :
        ts \in t..Min(t + MaxLag, MaxNow) }

\* the token response arrives and is stored; the requests took up to MaxLag
StoreTokenResponse(s, token_response, reqs, t) ==
    { LET u == UpdateTokenInformation(s, token_response, ts)
      IN  AuthResult(u.s, u.exc, reqs, token_response, TRUE, ts) :
        ts \in t..Min(t + MaxLag, MaxNow) }

\* variant: the credentials are used whenever they are there, whatever the
\* refresh step returned
AuthenticateAfterRefresh_CredentialsAlways(a, t) ==
    IF Truthy(a.s.email) /\ Truthy(a.s.password)
    THEN UNION { IF c.exc # ""
                 THEN {AuthResult(a.s, c.exc, a.reqs \o c.reqs, NoneResponse, TRUE, t)}
                 ELSE StoreTokenResponse(a.s, c.ret, a.reqs \o c.reqs, t) :
                   c \in AuthenticateWithCredentials(a.s, t) }
    ELSE IF a.ret # NoneResponse
    THEN StoreTokenResponse(a.s, a.ret, a.reqs, t)
    ELSE {AuthResult(a.s, "AuthenticationException", a.reqs, NoneResponse, TRUE, t)}

\* "If refresh failed or no refresh token, try credentials": a is how the
\* refresh step ended
AuthenticateAfterRefresh(a, t) ==
    IF a.ret # NoneResponse
    THEN StoreTokenResponse(a.s, a.ret, a.reqs, t)
    ELSE IF Truthy(a.s.email) /\ Truthy(a.s.password)
    THEN UNION { IF c.exc # ""
                 THEN {AuthResult(a.s, c.exc, a.reqs \o c.reqs, NoneResponse, TRUE, t)}
                 ELSE StoreTokenResponse(a.s, c.ret, a.reqs \o c.reqs, t) :
                   c \in AuthenticateWithCredentials(a.s, t) }
    ELSE {AuthResult(a.s, "AuthenticationException", a.reqs, NoneResponse, TRUE, t)}

\* the ways __authenticate can end when called at time t
Authenticate(s, t) ==
    UNION { AuthenticateAfterRefresh(a, t) :
              a \in IF RefreshAttempted(s, t)
                    THEN AuthenticateRefreshToken(s, t)
                    ELSE {[s |-> s, ret |-> NoneResponse, reqs |-> <<>>]} }

----------------------------------------------------------------------------
(* ThermiaAPI.__check_token_validity: the session validity guard *)

\* variant: the comparison with the clock is the wrong way round
TokenStillValid_Reversed(s, t) ==
    TruthyNum(s.token_expires_on) /\ s.token_expires_on < t

\* "Check if access token is still valid"
TokenStillValid(s, t) ==
    TruthyNum(s.token_expires_on) /\ s.token_expires_on > t

\* the ways the guard can end when called at time t; self.authenticated is
\* assigned only when __authenticate returns
CheckTokenValidity(s, t) ==
    IF TokenStillValid(s, t)
    THEN {AuthResult(s, "", <<>>, NoneResponse, FALSE, t)}
    ELSE { IF a.exc = "" THEN [a EXCEPT !.s.authenticated = TRUE] ELSE a :
             a \in Authenticate(s, t) }

----------------------------------------------------------------------------
(* ThermiaAPI.__init__ *)

\* the arguments a caller may pass
CredentialArgs == { <<None, None>>, <<"", "pw">>, <<"user", "pw">> }
AccessTokenArgs == {None, "", "A0"}
RefreshTokenArgs == {None, "", "R0"}

\* the object as the assignments of __init__ leave it, before it authenticates
NewSelf(e, p, a, r) ==
    [email |-> e, password |-> p, access_token |-> a, refresh_token |-> r,
     token_expires_on |-> NoneTime, refresh_token_expires_on |-> NoneTime,
     Authorization |-> "Bearer ", authenticated |-> FALSE]

\* variant: a refresh token alone passes the validation of the arguments
ThermiaAPIInit_RefreshTokenCounts(auth_ok, e, p, a, r, rc, t) ==
    LET has_credentials == e # None /\ p # None
        has_tokens == a # None \/ r # None
        s == NewSelf(e, p, a, r)
    IN  IF ~auth_ok \/ (~has_credentials /\ ~has_tokens)
        THEN {AuthResult(s, "ValueError", <<>>, NoneResponse, FALSE, t)}
        ELSE IF rc.status_code # HTTP_OK
        THEN {AuthResult(s, "NetworkException", <<Sent(ConfigRequest, rc)>>,
                         NoneResponse, FALSE, t)}
        ELSE IF Truthy(a)
        THEN {AuthResult([UpdateAuthorizationHeader(s) EXCEPT !.authenticated = TRUE],
                         "", <<Sent(ConfigRequest, rc)>>, NoneResponse, FALSE, t)}
        ELSE { [x EXCEPT !.s.authenticated = (x.exc = ""),
                         !.reqs = <<Sent(ConfigRequest, rc)>> \o @] :
                 x \in Authenticate(s, t) }

\* the ways the constructor can end at time t: auth_ok says whether auth_url,
\* auth_client_id and auth_redirect_uri are all given, rc is the response of
\* the configuration fetch
ThermiaAPIInit(auth_ok, e, p, a, r, rc, t) ==
    LET has_credentials == e # None /\ p # None
        has_tokens == a # None
        s == NewSelf(e, p, a, r)
    IN  IF ~auth_ok \/ (~has_credentials /\ ~has_tokens)
        THEN {AuthResult(s, "ValueError", <<>>, NoneResponse, FALSE, t)}
        ELSE IF rc.status_code # HTTP_OK
        THEN {AuthResult(s, "NetworkException", <<Sent(ConfigRequest, rc)>>,
                         NoneResponse, FALSE, t)}
        ELSE IF Truthy(a)
        THEN {AuthResult([UpdateAuthorizationHeader(s) EXCEPT !.authenticated = TRUE],
                         "", <<Sent(ConfigRequest, rc)>>, NoneResponse, FALSE, t)}
        ELSE { [x EXCEPT !.s.authenticated = (x.exc = ""),
                         !.reqs = <<Sent(ConfigRequest, rc)>> \o @] :
                 x \in Authenticate(s, t) }

----------------------------------------------------------------------------
(* ThermiaAPI.update_tokens *)

\* get_tokens(): the pair it returns
GetTokens(s) == <<s.access_token, s.refresh_token>>

\* update_tokens(a, r)
UpdateTokensResult(s, a, r) ==
    [UpdateAuthorizationHeader(
        [s EXCEPT !.access_token = a,
                  !.refresh_token = IF Truthy(r) THEN r ELSE @])
     EXCEPT !.authenticated = TRUE]

----------------------------------------------------------------------------
(* The authenticated operations: get_devices, __get_register_group and      *)
(* __set_register_value all run the guard and then send one request with    *)
(* the default headers; a status other than 200 is logged, not raised       *)

DeviceOps == {"get_devices", "get_register_group", "set_register_value"}

\* the record of one call of the public interface: the object before it (pre),
\* the clock when it started and ended, the exception it raised ("" when
\* none), the requests it sent, whether the Authenticator ran and the token
\* response the Authenticator stored; auth_ok is FALSE only for a construction
\* without auth_url, auth_client_id or auth_redirect_uri
CallResult(op, pre, t_start, g, reqs) ==
    [op |-> op, pre |-> pre, t_start |-> t_start, t_end |-> g.t_end,
     exc |-> g.exc, reqs |-> reqs, ran |-> g.ran,
     token_response |-> g.token_response, auth_ok |-> TRUE]

\* variant: a status other than 200 is raised instead of logged
SendDeviceRequest_RaisesOnFailure(op, s, t, g) ==
    { [s |-> g.s,
       call |-> [CallResult(op, s, t, g,
                     Append(g.reqs, Sent(DeviceRequest(op, g.s.Authorization),
                                         [status_code |-> status])))
                   EXCEPT !.exc = IF status = HTTP_OK THEN "" ELSE "NetworkException"]] :
        status \in StatusCodes }

\* the request that follows the guard, and its response
SendDeviceRequest(op, s, t, g) ==
    { [s |-> g.s,
       call |-> CallResult(op, s, t, g,
                    Append(g.reqs, Sent(DeviceRequest(op, g.s.Authorization),
                                        [status_code |-> status])))] :
        status \in StatusCodes }

\* variant: the request is sent although the guard raised
GuardedCall_IgnoresGuardFailure(op, s, t) ==
    UNION { SendDeviceRequest(op, s, t, g) : g \in CheckTokenValidity(s, t) }

\* the ways an authenticated operation can end when called at time t
GuardedCall(op, s, t) ==
    UNION { IF g.exc # ""
            THEN {[s |-> g.s, call |-> CallResult(op, s, t, g, g.reqs)]}
            ELSE SendDeviceRequest(op, s, t, g) :
              g \in CheckTokenValidity(s, t) }

----------------------------------------------------------------------------
(* The Thermia client: its constructor builds the ThermiaAPI session, copies *)
(* the authenticated flag and lists the heat pumps                           *)

\* the parameters of ThermiaAPI.__init__ that have no default value, and the
\* keywords with which Thermia.__init__ calls it
ThermiaAPIRequiredParameters == {"auth_url", "auth_client_id", "auth_redirect_uri"}
ThermiaAPIKeywords == {"email", "password", "access_token", "refresh_token"}

\* the end of Thermia.__init__: the session's constructor call as api, then
\* connected and heat_pumps ("unset" when the constructor did not get there)
ThermiaResult(api, connected, heat_pumps) ==
    [api |-> api, connected |-> connected, heat_pumps |-> heat_pumps]

\* fetch_heat_pumps on the session c.s at the end of its construction c: one
\* object per listed device, or the empty list when get_devices raised or was
\* answered with a status other than 200
FetchHeatPumps(c) ==
    { ThermiaResult(
          [c EXCEPT !.s = d.s, !.reqs = d.call.reqs, !.t_end = d.call.t_end],
          c.s.authenticated,
          IF d.call.exc = ""
                /\ d.call.reqs[Len(d.call.reqs)].resp.status_code = HTTP_OK
          THEN "one per device" ELSE "empty") :
        d \in { [s |-> x.s, call |-> [x.call EXCEPT !.reqs = c.reqs \o @]] :
                  x \in GuardedCall("get_devices", c.s, c.t_end) } }

\* the ways Thermia(username, password p, access_token a, refresh_token r) can
\* end at time t: a call that leaves a parameter without default unbound raises
\* TypeError before the body of ThermiaAPI.__init__ runs
ThermiaInit(username, p, a, r, rc, t) ==
    IF ~(ThermiaAPIRequiredParameters \subseteq ThermiaAPIKeywords)
    THEN {ThermiaResult(AuthResult(NewSelf(username, p, a, r), "TypeError",
                                   <<>>, NoneResponse, FALSE, t),
                        FALSE, "unset")}
    ELSE UNION { IF c.exc # ""
                 THEN {ThermiaResult(c, FALSE, "unset")}
                 ELSE FetchHeatPumps(c) :
                   c \in ThermiaAPIInit(TRUE, username, p, a, r, rc, t) }

----------------------------------------------------------------------------
(* The register groups: what __get_register_group returns and the two       *)
(* resolutions built on it                                                  *)

\* register names and the prefix of the operation mode names
REG_OPERATIONMODE == "REG_OPERATIONMODE"
REG_HOT_WATER_STATUS == "REG_HOT_WATER_STATUS"
REG__HOT_WATER_BOOST == "REG__HOT_WATER_BOOST"
REG_GROUP_HOT_WATER == "REG_GROUP_HOT_WATER"
REG_GROUP_OPERATIONAL_OPERATION == "REG_GROUP_OPERATIONAL_OPERATION"
REG_GROUP_OPERATIONAL_STATUS == "REG_GROUP_OPERATIONAL_STATUS"
REG_VALUE_OPERATION_MODE_ == "REG_VALUE_OPERATION_MODE_"

\* a value name is a sequence of pieces of text
ModeName(suffix) == <<REG_VALUE_OPERATION_MODE_, suffix>>

\* "Fix for multiple operation modes with the same value"
REG_OPERATIONMODE_SKIP_VALUES == { ModeName("SERVICE") }

\* Python None for a registerId and for a registerValue
NoneId == -1
NoneValue == -1

\* d.get("valueNames"): None, or the list of {value, name}
NoValueNames == [present |-> FALSE, list |-> <<>>]
ValueNames(list) == [present |-> TRUE, list |-> list]

\* one element of a register group
RegisterDescriptor(name, id, value, read_only, value_names) ==
    [registerName |-> name, registerId |-> id, registerValue |-> value,
     isReadOnly |-> read_only, valueNames |-> value_names]

\* [d for d in register_group if d["registerName"] == register_name]
WithRegisterName(register_group, register_name) ==
    SelectSeq(register_group, LAMBDA d : d.registerName = register_name)

default_return_object == [registerId |-> NoneId, registerValue |-> NoneValue]

\* variant: a register with more than two valueNames also counts as a switch
GetSwitchRegisterIndexAndValue_AtLeastTwo(register_group, register_name) ==
    LET switch_data_list == WithRegisterName(register_group, register_name)
    IN  IF Len(switch_data_list) # 1 THEN default_return_object
        ELSE IF switch_data_list[1].registerValue = NoneValue
        THEN default_return_object
        ELSE IF \/ ~switch_data_list[1].valueNames.present
                \/ Len(switch_data_list[1].valueNames.list) < 2
        THEN default_return_object
        ELSE [registerId |-> switch_data_list[1].registerId,
              registerValue |-> switch_data_list[1].registerValue]

\* __get_switch_register_index_and_value_from_group_by_register_name
GetSwitchRegisterIndexAndValue(register_group, register_name) ==
    LET switch_data_list == WithRegisterName(register_group, register_name)
    IN  IF Len(switch_data_list) # 1 THEN default_return_object
        ELSE IF switch_data_list[1].registerValue = NoneValue
        THEN default_return_object
        ELSE IF \/ ~switch_data_list[1].valueNames.present
                \/ Len(switch_data_list[1].valueNames.list) # 2
        THEN default_return_object
        ELSE [registerId |-> switch_data_list[1].registerId,
              registerValue |-> switch_data_list[1].registerValue]

\* the entries of valueNames that are not skipped, in their order
NotSkipped(operation_modes_data) ==
    SelectSeq(operation_modes_data,
              LAMBDA values : values.name \notin REG_OPERATIONMODE_SKIP_VALUES)

\* values.get("name").split("REG_VALUE_OPERATION_MODE_")[1] can be taken
HasModePrefix(values) == Len(Split(values.name, REG_VALUE_OPERATION_MODE_)) >= 2

\* operation_modes_list: one {value: name} per entry that is not skipped
OperationModesList(operation_modes_data) ==
    LET kept == NotSkipped(operation_modes_data)
    IN  [i \in 1..Len(kept) |->
            [value |-> kept[i].value,
             name |-> Split(kept[i].name, REG_VALUE_OPERATION_MODE_)[2]]]

\* ChainMap(*operation_modes_list).items(): every key once, with the value of
\* the first mapping that holds it
ChainMapItems(operation_modes_list) ==
    { <<operation_modes_list[i].value, operation_modes_list[i].name>> :
        i \in { k \in 1..Len(operation_modes_list) :
                  \A j \in 1..(k - 1) :
                      operation_modes_list[j].value # operation_modes_list[k].value } }

\* what the operation-mode resolution returns: None, or current, available
\* and isReadOnly
NoOperationMode ==
    [supported |-> FALSE, current |-> <<>>, available |-> {}, isReadOnly |-> FALSE]

\* how the resolution ends on register_data: the exception raised ("" when
\* none), the register index handed to the device (NoneId when the setter is
\* not called) and the value returned
OperationModeResult(exc, index_set, registerId, ret) ==
    [exc |-> exc, index_set |-> index_set, registerId |-> registerId, ret |-> ret]

\* __get_group_operational_operation_from_register_group, after the fetch
ResolveOperationMode(register_data) ==
    LET data == WithRegisterName(register_data, REG_OPERATIONMODE)
    IN  IF Len(data) # 1
        THEN OperationModeResult("", FALSE, NoneId, NoOperationMode)
        ELSE
          LET d == data[1]
              operation_modes == ChainMapItems(OperationModesList(d.valueNames.list))
              current_operation_mode ==
                  { item \in operation_modes : item[1] = d.registerValue }
          IN  IF d.registerValue = NoneValue
              THEN OperationModeResult("TypeError", TRUE, d.registerId, NoOperationMode)
              ELSE IF ~d.valueNames.present
              THEN OperationModeResult("", TRUE, d.registerId, NoOperationMode)
              ELSE IF \E i \in 1..Len(NotSkipped(d.valueNames.list)) :
                         ~HasModePrefix(NotSkipped(d.valueNames.list)[i])
              THEN OperationModeResult("IndexError", TRUE, d.registerId, NoOperationMode)
              ELSE IF Cardinality(current_operation_mode) # 1
              THEN OperationModeResult("", TRUE, d.registerId, NoOperationMode)
              ELSE OperationModeResult("", TRUE, d.registerId,
                       [supported |-> TRUE,
                        current |-> (CHOOSE item \in current_operation_mode : TRUE)[2],
                        available |-> operation_modes,
                        isReadOnly |-> d.isReadOnly])

\* the device's cache of register indexes, as get_register_indexes() shows it
NoRegisterIndexes ==
    [temperature |-> NoneId, operation_mode |-> NoneId, hot_water_switch |-> NoneId,
     hot_water_boost_switch |-> NoneId]

\* the temperature index is set by the device itself: absent, or a registerId
TemperatureIndexes == {NoneId, 31}

\* device.available_operation_mode_map as the caller's device holds it: the
\* (value, name) items in the order .items() gives them; empty before any
\* operation mode was read
OperationModeMaps ==
    { <<>>,
      << <<1, <<"AUTO">>>>, <<2, <<"OFF">>>> >>,
      << <<1, <<"AUTO">>>>, <<2, <<"OFF">>>>, <<3, <<"AUTO">>>> >> }

\* the mode names a caller may ask for
RequestedModes == { <<"AUTO">>, <<"OFF">>, <<"COMFORT">> }

\* "for value, name in ...items(): if name == mode: operation_mode_int =
\* value": the value of the last item with that name, None when there is none
OperationModeInt(available_operation_mode_map, mode) ==
    LET matches == { i \in 1..Len(available_operation_mode_map) :
                       available_operation_mode_map[i][2] = mode }
    IN  IF matches = {} THEN NoneValue
        ELSE available_operation_mode_map[
                 CHOOSE i \in matches : \A j \in matches : j <= i][1]

\* variant: a write goes out whatever the cached index is
NoRegisterIndex_NeverChecked(register_index) == FALSE

\* "if register_index is None: ... return"
NoRegisterIndex(register_index) == register_index = NoneId

\* a valueNames entry
ValueName(value, name) == [value |-> value, name |-> name]

\* the (registerValue, valueNames) pairs a switch register may arrive with: a
\* switch, one without a value, one without valueNames, one with three names
SwitchShapes ==
    { <<1, ValueNames(<<ValueName(0, <<"off">>), ValueName(1, <<"on">>)>>)>>,
      <<NoneValue, ValueNames(<<ValueName(0, <<"off">>), ValueName(1, <<"on">>)>>)>>,
      <<1, NoValueNames>>,
      <<1, ValueNames(<<ValueName(0, <<"off">>), ValueName(1, <<"on">>),
                        ValueName(2, <<"auto">>)>>)>> }

\* the elements of a hot-water group: each of the two registers in every
\* shape, under one of two registerIds
HotWaterDescriptors ==
    { RegisterDescriptor(name, 11, shape[1], FALSE, shape[2]) :
        name \in {REG_HOT_WATER_STATUS, REG__HOT_WATER_BOOST}, shape \in SwitchShapes }
    \cup { RegisterDescriptor(name, 12, 1, FALSE,
                              ValueNames(<<ValueName(0, <<"off">>), ValueName(1, <<"on">>)>>)) :
             name \in {REG_HOT_WATER_STATUS, REG__HOT_WATER_BOOST} }

\* the (registerValue, valueNames) pairs an operation mode register may arrive
\* with: two modes; two names for one value; the skipped name before another
\* name for the same value; a value no name stands for; no value; no
\* valueNames; a name without the prefix; the skipped name alone
OperationModeShapes ==
    { <<1, ValueNames(<<ValueName(1, ModeName("AUTO")), ValueName(2, ModeName("OFF"))>>)>>,
      <<1, ValueNames(<<ValueName(1, ModeName("AUTO")), ValueName(1, ModeName("OFF"))>>)>>,
      <<1, ValueNames(<<ValueName(1, ModeName("SERVICE")), ValueName(1, ModeName("OFF"))>>)>>,
      <<3, ValueNames(<<ValueName(1, ModeName("AUTO")), ValueName(2, ModeName("OFF"))>>)>>,
      <<NoneValue, ValueNames(<<ValueName(1, ModeName("AUTO")), ValueName(2, ModeName("OFF"))>>)>>,
      <<1, NoValueNames>>,
      <<1, ValueNames(<<ValueName(1, <<"OFF">>)>>)>>,
      <<1, ValueNames(<<ValueName(1, ModeName("SERVICE"))>>)>> }

\* the elements of an operation-mode group: the operation mode register in
\* every shape, a read-only one under another registerId, and another register
OperationModeDescriptors ==
    { RegisterDescriptor(REG_OPERATIONMODE, 21, shape[1], FALSE, shape[2]) :
        shape \in OperationModeShapes }
    \cup { RegisterDescriptor(REG_OPERATIONMODE, 22, 1, TRUE,
                              ValueNames(<<ValueName(1, ModeName("AUTO")),
                                           ValueName(2, ModeName("OFF"))>>)) }
    \cup { RegisterDescriptor("REG_OTHER", 23, 1, FALSE, NoValueNames) }

\* the lists of at most MaxGroupLen descriptors taken from D
RegisterGroups(D) == UNION { [1..n -> D] : n \in 0..MaxGroupLen }

\* the ways __get_register_group can end when called at time t while the
\* server holds one of the groups of D: the guard raises; or the status is not
\* 200 and [] is returned; or the body is no JSON and the helper raises; or the
\* group is returned
RegisterGroupOutcome(c, exc, register_data) ==
    [s |-> c.s, call |-> c.call, exc |-> exc, register_data |-> register_data]

GetRegisterGroupOutcomes(s, t, D) ==
    UNION { IF c.call.exc # ""
            THEN {RegisterGroupOutcome(c, c.call.exc, <<>>)}
            ELSE IF c.call.reqs[Len(c.call.reqs)].resp.status_code # HTTP_OK
            THEN {RegisterGroupOutcome(c, "", <<>>)}
            ELSE {RegisterGroupOutcome(c, "NetworkException", <<>>)}
                 \cup {RegisterGroupOutcome(c, "", g) : g \in RegisterGroups(D)} :
              c \in GuardedCall("get_register_group", s, t) }

\* device.set_register_index_operation_mode / _hot_water_switch /
\* _hot_water_boost_switch: the device keeps the index it is handed
SetRegisterIndex(indexes, key, registerId) == [indexes EXCEPT ![key] = registerId]

\* variant: an index is replaced only by another index, never by None
SetHotWaterRegisterIndexes_KeepsWhenUnsupported(indexes, switch_data, boost_switch_data) ==
    LET i1 == IF switch_data.registerId = NoneId THEN indexes
              ELSE SetRegisterIndex(indexes, "hot_water_switch", switch_data.registerId)
    IN  IF boost_switch_data.registerId = NoneId THEN i1
        ELSE SetRegisterIndex(i1, "hot_water_boost_switch", boost_switch_data.registerId)

\* get_group_hot_water hands both resolved indexes to the device
SetHotWaterRegisterIndexes(indexes, switch_data, boost_switch_data) ==
    SetRegisterIndex(
        SetRegisterIndex(indexes, "hot_water_switch", switch_data.registerId),
        "hot_water_boost_switch", boost_switch_data.registerId)

\* the record of one call of the register layer: the operation, the cache
\* before it, whether __get_register_group returned, the exception the call
\* raised, the group it worked on, what the two
\* switch resolutions and the operation-mode resolution returned, and the
\* register index and value of the write it sent (NoneId when none), that is
\* the registerSpecificationId and registerValue of the POST's body; for
\* set_operation_mode also the device's read-only flag and mode map and the
\* mode asked for
NoFetch ==
    [op |-> "none", pre |-> NoRegisterIndexes, fetched |-> FALSE, exc |-> "",
     register_data |-> <<>>,
     hot_water_switch_data |-> default_return_object,
     hot_water_boost_switch_data |-> default_return_object,
     mode |-> NoOperationMode, register_index |-> NoneId, register_value |-> NoneValue,
     is_operation_mode_read_only |-> FALSE, available_operation_mode_map |-> <<>>,
     requested_mode |-> <<>>]

----------------------------------------------------------------------------
(* The state machine *)

\* the concurrent callers of one session, and a caller that has not called:
\* pc is where the caller is in its operation, request_token_data the refresh
\* token it put into the body of its refresh POST, stored_at_post the refresh
\* token the object held when that POST went out, token_response the local
\* variable of __authenticate, exc the exception that ended the call, and
\* Authorization the header its Device API request carried
Callers == {1, 2}

NoCaller ==
    [pc |-> "idle", request_token_data |-> None, stored_at_post |-> None,
     token_response |-> NoneResponse, exc |-> "", Authorization |-> ""]

NoCallers == [p \in Callers |-> NoCaller]

NoCall ==
    [op |-> "none", pre |-> NewSelf(None, None, None, None), t_start |-> 0, t_end |-> 0,
     exc |-> "", reqs |-> <<>>, ran |-> FALSE, token_response |-> NoneResponse,
     auth_ok |-> TRUE]

SetSelf(s) ==
    /\ email' = s.email
    /\ password' = s.password
    /\ access_token' = s.access_token
    /\ refresh_token' = s.refresh_token
    /\ token_expires_on' = s.token_expires_on
    /\ refresh_token_expires_on' = s.refresh_token_expires_on
    /\ Authorization' = s.Authorization
    /\ authenticated' = s.authenticated

Init ==
    /\ phase = "new"
    /\ email = None
    /\ password = None
    /\ access_token = None
    /\ refresh_token = None
    /\ token_expires_on = NoneTime
    /\ refresh_token_expires_on = NoneTime
    /\ Authorization = "Bearer "
    /\ authenticated = FALSE
    /\ now = 1
    /\ last = NoCall
    /\ register_indexes = NoRegisterIndexes
    /\ fetch = NoFetch
    /\ callers = NoCallers

\* thermia = ThermiaAPI(...): an exception leaves no object behind
Construct ==
    /\ phase = "new"
    /\ last = NoCall
    /\ \E auth_ok \in BOOLEAN, ep \in CredentialArgs, a \in AccessTokenArgs,
          r \in RefreshTokenArgs, status \in StatusCodes :
         \E c \in ThermiaAPIInit(auth_ok, ep[1], ep[2], a, r,
                                 [status_code |-> status], now) :
            /\ phase' = IF c.exc = "" THEN "ready" ELSE "failed"
            /\ SetSelf(IF c.exc = "" THEN c.s ELSE Self)
            /\ now' = c.t_end
            /\ last' = [CallResult("init", NewSelf(ep[1], ep[2], a, r), now, c, c.reqs)
                           EXCEPT !.auth_ok = auth_ok]
    /\ UNCHANGED <<callers, register_indexes, fetch>>

\* thermia = Thermia(...): an exception leaves no object behind
ConstructThermia ==
    /\ phase = "new"
    /\ last = NoCall
    /\ \E ep \in CredentialArgs, a \in AccessTokenArgs, r \in RefreshTokenArgs,
          status \in StatusCodes :
         \E c \in ThermiaInit(ep[1], ep[2], a, r, [status_code |-> status], now) :
            /\ phase' = IF c.api.exc = "" THEN "ready" ELSE "failed"
            /\ SetSelf(IF c.api.exc = "" THEN c.api.s ELSE Self)
            /\ now' = c.api.t_end
            /\ last' = [op |-> "thermia_init", pre |-> NewSelf(ep[1], ep[2], a, r),
                        t_start |-> now, t_end |-> c.api.t_end, exc |-> c.api.exc,
                        reqs |-> c.api.reqs, ran |-> c.api.ran,
                        token_response |-> c.api.token_response, auth_ok |-> TRUE,
                        connected |-> c.connected, heat_pumps |-> c.heat_pumps]
    /\ UNCHANGED <<callers, register_indexes, fetch>>

UpdateTokens ==
    /\ phase = "ready"
    /\ last = NoCall
    /\ \E a \in AccessTokenArgs, r \in RefreshTokenArgs :
         /\ SetSelf(UpdateTokensResult(Self, a, r))
         /\ last' = [op |-> "update_tokens", pre |-> Self, t_start |-> now,
                     t_end |-> now, exc |-> "", reqs |-> <<>>, ran |-> FALSE,
                     token_response |-> NoneResponse, auth_ok |-> TRUE,
                     args |-> [access_token |-> a, refresh_token |-> r]]
    /\ UNCHANGED <<callers, phase, now, register_indexes, fetch>>

DeviceOperation(op) ==
    /\ phase = "ready"
    /\ last = NoCall
    /\ \E c \in GuardedCall(op, Self, now) :
         /\ SetSelf(c.s)
         /\ now' = c.call.t_end
         /\ last' = c.call
    /\ UNCHANGED <<callers, phase, register_indexes, fetch>>

\* get_devices and set_register_value; __get_register_group is followed in the
\* register layer below
GetDevices == DeviceOperation("get_devices")
SetRegisterValue == DeviceOperation("set_register_value")

\* the caller has taken the result of the call; the object is as the call left it
Return ==
    /\ last # NoCall \/ fetch # NoFetch
    /\ last' = NoCall
    /\ fetch' = NoFetch
    /\ UNCHANGED <<callers, phase, email, password, access_token, refresh_token, token_expires_on,
                   refresh_token_expires_on, Authorization, authenticated, now,
                   register_indexes>>

\* an hour passes between two calls
Tick ==
    /\ phase = "ready"
    /\ last = NoCall
    /\ now < MaxNow
    /\ now' = now + 1
    /\ last' = NoCall
    /\ UNCHANGED <<callers, phase, email, password, access_token, refresh_token, token_expires_on,
                   refresh_token_expires_on, Authorization, authenticated,
                   register_indexes, fetch>>

----------------------------------------------------------------------------
(* The register layer on one device.  Its calls are taken from two objects  *)
(* the constructor can leave behind: one logged in with credentials whose   *)
(* access token is still valid, and one built from an access token alone,   *)
(* whose guard has nothing to authenticate with                             *)

RegSessions ==
    { [email |-> "user", password |-> "pw", access_token |-> "A1",
       refresh_token |-> "R1", token_expires_on |-> 4,
       refresh_token_expires_on |-> 1 + REFRESH_TOKEN_LIFETIME,
       Authorization |-> "Bearer A1", authenticated |-> TRUE],
      [UpdateAuthorizationHeader(NewSelf(None, None, "A0", None))
         EXCEPT !.authenticated = TRUE] }

RegInit ==
    /\ phase = "ready"
    /\ \E s \in RegSessions :
         /\ email = s.email
         /\ password = s.password
         /\ access_token = s.access_token
         /\ refresh_token = s.refresh_token
         /\ token_expires_on = s.token_expires_on
         /\ refresh_token_expires_on = s.refresh_token_expires_on
         /\ Authorization = s.Authorization
         /\ authenticated = s.authenticated
    /\ now = 1
    /\ last = NoCall
    /\ \E i \in TemperatureIndexes :
         register_indexes = [NoRegisterIndexes EXCEPT !.temperature = i]
    /\ fetch = NoFetch
    /\ callers = NoCallers

\* get_group_hot_water(device)
GetGroupHotWater ==
    /\ phase = "ready"
    /\ last = NoCall /\ fetch = NoFetch
    /\ \E o \in GetRegisterGroupOutcomes(Self, now, HotWaterDescriptors) :
         LET hot_water_switch_data ==
                 GetSwitchRegisterIndexAndValue(o.register_data, REG_HOT_WATER_STATUS)
             hot_water_boost_switch_data ==
                 GetSwitchRegisterIndexAndValue(o.register_data, REG__HOT_WATER_BOOST)
         IN  /\ SetSelf(o.s)
             /\ now' = o.call.t_end
             /\ last' = o.call
             /\ IF o.exc # ""
                THEN /\ register_indexes' = register_indexes
                     /\ fetch' = [NoFetch EXCEPT !.op = "get_group_hot_water",
                                                 !.pre = register_indexes,
                                                 !.exc = o.exc]
                ELSE /\ register_indexes' =
                            SetHotWaterRegisterIndexes(register_indexes,
                                hot_water_switch_data, hot_water_boost_switch_data)
                     /\ fetch' = [NoFetch EXCEPT
                                    !.op = "get_group_hot_water",
                                    !.pre = register_indexes,
                                    !.fetched = TRUE,
                                    !.register_data = o.register_data,
                                    !.hot_water_switch_data = hot_water_switch_data,
                                    !.hot_water_boost_switch_data =
                                        hot_water_boost_switch_data]
    /\ UNCHANGED <<callers, phase>>

\* __get_group_operational_operation_from_register_group(device, register_group)
OperationalOperationFromRegisterGroup(register_group) ==
    /\ phase = "ready"
    /\ last = NoCall /\ fetch = NoFetch
    /\ \E o \in GetRegisterGroupOutcomes(Self, now, OperationModeDescriptors) :
         LET r == ResolveOperationMode(o.register_data)
         IN  /\ SetSelf(o.s)
             /\ now' = o.call.t_end
             /\ last' = o.call
             /\ IF o.exc # ""
                THEN /\ register_indexes' = register_indexes
                     /\ fetch' = [NoFetch EXCEPT !.op = register_group,
                                                 !.pre = register_indexes,
                                                 !.exc = o.exc]
                ELSE /\ register_indexes' =
                            IF r.index_set
                            THEN SetRegisterIndex(register_indexes, "operation_mode",
                                                  r.registerId)
                            ELSE register_indexes
                     /\ fetch' = [NoFetch EXCEPT !.op = register_group,
                                                 !.pre = register_indexes,
                                                 !.fetched = TRUE,
                                                 !.exc = r.exc,
                                                 !.register_data = o.register_data,
                                                 !.mode = r.ret]
    /\ UNCHANGED <<callers, phase>>

GetGroupOperationalOperation ==
    OperationalOperationFromRegisterGroup(REG_GROUP_OPERATIONAL_OPERATION)

GetGroupOperationalOperationFromStatus ==
    OperationalOperationFromRegisterGroup(REG_GROUP_OPERATIONAL_STATUS)

\* a setter returns without calling __set_register_value; w is its record
NoWrite(w) ==
    /\ fetch' = w
    /\ UNCHANGED <<callers, email, password, access_token, refresh_token, token_expires_on,
                   refresh_token_expires_on, Authorization, authenticated, now, last>>

\* __set_register_value(device, register_index, register_value) called by the
\* setter whose record is w: the guard, then the POST whose body holds
\* register_index and register_value; its status is logged, nothing is returned
WriteRegisterValue(w, register_index, register_value) ==
    \E c \in GuardedCall("set_register_value", Self, now) :
       /\ SetSelf(c.s)
       /\ now' = c.call.t_end
       /\ last' = c.call
       /\ fetch' = [w EXCEPT !.exc = c.call.exc,
                             !.register_index =
                                 IF c.call.exc = "" THEN register_index ELSE NoneId,
                             !.register_value =
                                 IF c.call.exc = "" THEN register_value ELSE NoneValue]

\* set_temperature, set_hot_water_switch_state and
\* set_hot_water_boost_switch_state: the cached index under key, then the write
SetCachedRegister(op, key, values) ==
    /\ phase = "ready"
    /\ last = NoCall /\ fetch = NoFetch
    /\ \E value \in values :
         LET w == [NoFetch EXCEPT !.op = op, !.pre = register_indexes]
             register_index == register_indexes[key]
         IN  IF NoRegisterIndex(register_index)
             THEN NoWrite(w)
             ELSE WriteRegisterValue(w, register_index, value)
    /\ UNCHANGED <<callers, phase, register_indexes>>

\* set_temperature(device, temperature)
SetTemperature == SetCachedRegister("set_temperature", "temperature", {20})

\* set_hot_water_switch_state(device, state)
SetHotWaterSwitchState ==
    SetCachedRegister("set_hot_water_switch_state", "hot_water_switch", {0, 1})

\* set_hot_water_boost_switch_state(device, state)
SetHotWaterBoostSwitchState ==
    SetCachedRegister("set_hot_water_boost_switch_state", "hot_water_boost_switch", {0, 1})

\* set_operation_mode(device, mode): the device's read-only flag and its map of
\* available modes are the caller's
SetOperationMode ==
    /\ phase = "ready"
    /\ last = NoCall /\ fetch = NoFetch
    /\ \E is_operation_mode_read_only \in BOOLEAN,
          available_operation_mode_map \in OperationModeMaps,
          mode \in RequestedModes :
         LET w == [NoFetch EXCEPT
                     !.op = "set_operation_mode", !.pre = register_indexes,
                     !.is_operation_mode_read_only = is_operation_mode_read_only,
                     !.available_operation_mode_map = available_operation_mode_map,
                     !.requested_mode = mode]
             operation_mode_int == OperationModeInt(available_operation_mode_map, mode)
             device_operation_mode_register_index == register_indexes.operation_mode
         IN  IF is_operation_mode_read_only THEN NoWrite(w)
             ELSE IF operation_mode_int = NoneValue THEN NoWrite(w)
             ELSE IF NoRegisterIndex(device_operation_mode_register_index)
             THEN NoWrite(w)
             ELSE WriteRegisterValue(w, device_operation_mode_register_index,
                                     operation_mode_int)
    /\ UNCHANGED <<callers, phase, register_indexes>>

RegNext ==
    \/ GetGroupHotWater
    \/ GetGroupOperationalOperation
    \/ GetGroupOperationalOperationFromStatus
    \/ SetTemperature
    \/ SetHotWaterSwitchState
    \/ SetHotWaterBoostSwitchState
    \/ SetOperationMode
    \/ Return

RegSpec == RegInit /\ [][RegNext]_vars

\* the session and its device listing
Next ==
    \/ Construct
    \/ ConstructThermia
    \/ UpdateTokens
    \/ GetDevices
    \/ Return
    \/ Tick

Spec == Init /\ [][Next]_vars

\* the session and its register writes
WriteNext ==
    \/ Construct
    \/ UpdateTokens
    \/ SetRegisterValue
    \/ Return
    \/ Tick

WriteSpec == Init /\ [][WriteNext]_vars

----------------------------------------------------------------------------
(* Two callers on one session.  Nothing synchronizes them: a caller can be  *)
(* overtaken between any two statements of __check_token_validity,          *)
(* __authenticate and __authenticate_refresh_token, so every read and every *)
(* assignment of a field is a step of its own.  The credential login reads  *)
(* only email and password, which no statement changes after construction,  *)
(* and is one step                                                          *)

\* the clock of the concurrent calls
ConcNow == 4

\* the sessions the callers share: one logged in with credentials whose access
\* token has just expired, and one built from tokens, whose access expiry is
\* unknown; both hold the tokens "A0" and "R0" given with update_tokens or at
\* construction
ConcSessions ==
    { [email |-> "user", password |-> "pw", access_token |-> "A0",
       refresh_token |-> "R0", token_expires_on |-> ConcNow,
       refresh_token_expires_on |-> 1 + REFRESH_TOKEN_LIFETIME,
       Authorization |-> "Bearer A0", authenticated |-> TRUE],
      [UpdateAuthorizationHeader(NewSelf(None, None, "A0", "R0"))
         EXCEPT !.authenticated = TRUE] }

\* the token endpoint issues new tokens with every answer: the JSON objects it
\* may send to caller p, with or without refresh_token
ConcTokenJsons(p, t) ==
    { TokenJson(k \cup {"access_token", "expires_on"},
                IF p = 1 THEN "A1" ELSE "A2",
                IF p = 1 THEN "R1" ELSE "R2",
                IntExpiresOn(t + 2 + p)) :
        k \in SUBSET {"refresh_token"} }

\* its answers to the refresh POST of caller p
ConcTokenResponses(p, t) ==
    {[status_code |-> 400, parseable |-> FALSE, json |-> NoJson]}
    \cup {[status_code |-> HTTP_OK, parseable |-> FALSE, json |-> NoJson]}
    \cup {[status_code |-> HTTP_OK, parseable |-> TRUE, json |-> j] :
            j \in ConcTokenJsons(p, t)}

ConcInit ==
    /\ phase = "ready"
    /\ \E s \in ConcSessions :
         /\ email = s.email
         /\ password = s.password
         /\ access_token = s.access_token
         /\ refresh_token = s.refresh_token
         /\ token_expires_on = s.token_expires_on
         /\ refresh_token_expires_on = s.refresh_token_expires_on
         /\ Authorization = s.Authorization
         /\ authenticated = s.authenticated
    /\ now = ConcNow
    /\ last = NoCall
    /\ register_indexes = NoRegisterIndexes
    /\ fetch = NoFetch
    /\ callers = NoCallers

\* caller p moves on to pc
Goto(p, pc) == callers' = [callers EXCEPT ![p].pc = pc]

\* what no statement of the guard and the Authenticator writes
ConcFrame == UNCHANGED <<phase, email, password, now, last, register_indexes, fetch>>

TokenFields == <<access_token, refresh_token, token_expires_on, refresh_token_expires_on>>

\* caller p calls get_devices()
CallerCalls(p) ==
    /\ callers[p].pc = "idle"
    /\ Goto(p, "check_token_validity")
    /\ ConcFrame
    /\ UNCHANGED <<TokenFields, Authorization, authenticated>>

\* __check_token_validity: the test of the access expiry
CallerChecksTokenValidity(p) ==
    /\ callers[p].pc = "check_token_validity"
    /\ Goto(p, IF TokenStillValid(Self, now) THEN "send" ELSE "authenticate")
    /\ ConcFrame
    /\ UNCHANGED <<TokenFields, Authorization, authenticated>>

\* __authenticate: "Try refresh token first if available and potentially valid"
CallerTestsRefresh(p) ==
    /\ callers[p].pc = "authenticate"
    /\ Goto(p, IF RefreshAttempted(Self, now) THEN "refresh" ELSE "credentials")
    /\ ConcFrame
    /\ UNCHANGED <<TokenFields, Authorization, authenticated>>

\* __authenticate_refresh_token: "if not self.__refresh_token: return None"
CallerEntersRefresh(p) ==
    /\ callers[p].pc = "refresh"
    /\ Goto(p, IF Truthy(refresh_token) THEN "request_token_data" ELSE "credentials")
    /\ ConcFrame
    /\ UNCHANGED <<TokenFields, Authorization, authenticated>>

\* the body of the refresh POST is built from the refresh token stored now
CallerBuildsRefreshRequest(p) ==
    /\ callers[p].pc = "request_token_data"
    /\ callers' = [callers EXCEPT ![p].pc = "post",
                                  ![p].request_token_data = refresh_token]
    /\ ConcFrame
    /\ UNCHANGED <<TokenFields, Authorization, authenticated>>

\* the refresh POST goes out and is answered
CallerPostsRefresh(p) ==
    /\ callers[p].pc = "post"
    /\ \E r \in ConcTokenResponses(p, now) :
         callers' = [callers EXCEPT
                       ![p].stored_at_post = refresh_token,
                       ![p].token_response =
                           IF r.status_code = HTTP_OK /\ r.parseable
                           THEN r.json ELSE NoneResponse,
                       ![p].pc =
                           IF r.status_code # HTTP_OK THEN "clear_access_token"
                           ELSE IF ~r.parseable THEN "credentials"
                           ELSE "store_access_token"]
    /\ ConcFrame
    /\ UNCHANGED <<TokenFields, Authorization, authenticated>>

\* "Clear invalid tokens": four assignments
CallerClearsTokens(p) ==
    /\ \/ /\ callers[p].pc = "clear_access_token"
          /\ access_token' = None
          /\ Goto(p, "clear_refresh_token")
          /\ UNCHANGED <<refresh_token, token_expires_on, refresh_token_expires_on>>
       \/ /\ callers[p].pc = "clear_refresh_token"
          /\ refresh_token' = None
          /\ Goto(p, "clear_token_expires_on")
          /\ UNCHANGED <<access_token, token_expires_on, refresh_token_expires_on>>
       \/ /\ callers[p].pc = "clear_token_expires_on"
          /\ token_expires_on' = NoneTime
          /\ Goto(p, "clear_refresh_token_expires_on")
          /\ UNCHANGED <<access_token, refresh_token, refresh_token_expires_on>>
       \/ /\ callers[p].pc = "clear_refresh_token_expires_on"
          /\ refresh_token_expires_on' = NoneTime
          /\ Goto(p, "credentials")
          /\ UNCHANGED <<access_token, refresh_token, token_expires_on>>
    /\ ConcFrame
    /\ UNCHANGED <<Authorization, authenticated>>

\* "If refresh failed or no refresh token, try credentials": the login ends
\* with one of its exceptions or with new tokens; without credentials
\* __authenticate raises
CallerLogsIn(p) ==
    /\ callers[p].pc = "credentials"
    /\ IF Truthy(email) /\ Truthy(password)
       THEN \E c \in AuthenticateWithCredentials(Self, now) :
              IF c.exc # ""
              THEN callers' = [callers EXCEPT ![p].pc = "raised", ![p].exc = c.exc]
              ELSE \E j \in ConcTokenJsons(p, now) :
                     callers' = [callers EXCEPT ![p].pc = "store_access_token",
                                                ![p].token_response = j]
       ELSE callers' = [callers EXCEPT ![p].pc = "raised",
                                       ![p].exc = "AuthenticationException"]
    /\ ConcFrame
    /\ UNCHANGED <<TokenFields, Authorization, authenticated>>

\* "Update token information": four assignments and the header
CallerStoresTokenResponse(p) ==
    /\ \/ /\ callers[p].pc = "store_access_token"
          /\ access_token' = callers[p].token_response.access_token
          /\ Goto(p, "store_refresh_token")
          /\ UNCHANGED <<refresh_token, token_expires_on, refresh_token_expires_on,
                         Authorization>>
       \/ /\ callers[p].pc = "store_refresh_token"
          /\ refresh_token' =
                IF "refresh_token" \in callers[p].token_response.keys
                THEN callers[p].token_response.refresh_token
                ELSE refresh_token
          /\ Goto(p, "store_token_expires_on")
          /\ UNCHANGED <<access_token, token_expires_on, refresh_token_expires_on,
                         Authorization>>
       \/ /\ callers[p].pc = "store_token_expires_on"
          /\ token_expires_on' =
                LET expires_on == callers[p].token_response.expires_on
                IN  IF expires_on.kind = "str" THEN IntOfStr(expires_on.chars)
                    ELSE expires_on.n
          /\ Goto(p, "store_refresh_token_expires_on")
          /\ UNCHANGED <<access_token, refresh_token, refresh_token_expires_on,
                         Authorization>>
       \/ /\ callers[p].pc = "store_refresh_token_expires_on"
          /\ refresh_token_expires_on' = now + REFRESH_TOKEN_LIFETIME
          /\ Goto(p, "update_authorization_header")
          /\ UNCHANGED <<access_token, refresh_token, token_expires_on, Authorization>>
       \/ /\ callers[p].pc = "update_authorization_header"
          /\ Authorization' = UpdateAuthorizationHeader(Self).Authorization
          /\ Goto(p, "authenticated")
          /\ UNCHANGED TokenFields
    /\ ConcFrame
    /\ UNCHANGED authenticated

\* "self.authenticated = self.__authenticate()"
CallerSetsAuthenticated(p) ==
    /\ callers[p].pc = "authenticated"
    /\ authenticated' = TRUE
    /\ Goto(p, "send")
    /\ ConcFrame
    /\ UNCHANGED <<TokenFields, Authorization>>

\* the Device API request goes out with the default headers and the call
\* returns
CallerSendsRequest(p) ==
    /\ callers[p].pc = "send"
    /\ callers' = [callers EXCEPT ![p].pc = "done", ![p].Authorization = Authorization]
    /\ ConcFrame
    /\ UNCHANGED <<TokenFields, Authorization, authenticated>>

ConcNext ==
    \E p \in Callers :
       \/ CallerCalls(p)
       \/ CallerChecksTokenValidity(p)
       \/ CallerTestsRefresh(p)
       \/ CallerEntersRefresh(p)
       \/ CallerBuildsRefreshRequest(p)
       \/ CallerPostsRefresh(p)
       \/ CallerClearsTokens(p)
       \/ CallerLogsIn(p)
       \/ CallerStoresTokenResponse(p)
       \/ CallerSetsAuthenticated(p)
       \/ CallerSendsRequest(p)

ConcSpec == ConcInit /\ [][ConcNext]_vars

----------------------------------------------------------------------------
(* Properties.  Each is about the call recorded in last: the object before  *)
(* the call is last.pre, the object after it is the current state.          *)

\* the requests of the recorded call that went to the login service
AuthLog == SelectSeq(last.reqs, LAMBDA x : x.req.ep \in AuthEndpoints)

\* the positions of the refresh-grant POSTs among the requests of the call
RefreshPosts ==
    { i \in 1..Len(last.reqs) :
        /\ last.reqs[i].req.ep = "token"
        /\ last.reqs[i].req.method = "POST"
        /\ last.reqs[i].req.grant_type = "refresh_token" }

\* the positions of the Device API requests of the call
DeviceRequests == { i \in 1..Len(last.reqs) : last.reqs[i].req.ep = "device" }

\* the call was an authenticated operation, so it began with the guard
GuardRan == last.op \in DeviceOps

\* the object had an email and a password before the call
HadCredentials ==
    /\ last.pre.email # None /\ last.pre.email # ""
    /\ last.pre.password # None /\ last.pre.password # ""

\* before the call a refresh token was stored and its expiry, if recorded,
\* was still ahead
HadUsableRefreshToken ==
    /\ last.pre.refresh_token # None /\ last.pre.refresh_token # ""
    /\ \/ last.pre.refresh_token_expires_on = NoneTime
       \/ last.pre.refresh_token_expires_on > last.t_start

\* the number an expires_on value stands for
ExpiresOnNumber(e) == IF e.kind = "str" THEN IntOfStr(e.chars) ELSE e.n

\* all four token fields are absent
TokensAbsent ==
    /\ access_token = None
    /\ refresh_token = None
    /\ token_expires_on = NoneTime
    /\ refresh_token_expires_on = NoneTime

\* the first request to the login service was a refresh POST that the token
\* endpoint answered with a status other than 200
RefreshRejected ==
    /\ last.ran
    /\ Len(AuthLog) >= 1
    /\ AuthLog[1].req.ep = "token"
    /\ AuthLog[1].req.grant_type = "refresh_token"
    /\ AuthLog[1].resp.status_code # 200

\* C1: when the stored access expiry is set and strictly later than the clock,
\* an authenticated operation sends no request to the login service and leaves
\* the access token, the refresh token, both expiries, the bearer header and
\* the authenticated flag as they were.
C1_GuardPassThrough ==
    ( /\ GuardRan
      /\ last.pre.token_expires_on # NoneTime
      /\ last.pre.token_expires_on > last.t_start )
    => /\ AuthLog = <<>>
       /\ access_token = last.pre.access_token
       /\ refresh_token = last.pre.refresh_token
       /\ token_expires_on = last.pre.token_expires_on
       /\ refresh_token_expires_on = last.pre.refresh_token_expires_on
       /\ Authorization = last.pre.Authorization
       /\ authenticated = last.pre.authenticated

\* an operation went through the guard with a valid token and sent its request
C1_Witness ==
    /\ GuardRan
    /\ last.pre.token_expires_on # NoneTime
    /\ last.pre.token_expires_on > last.t_start
    /\ Len(last.reqs) = 1
    /\ last.reqs[1].req.ep = "device"

\* the case of C2: the guard ran with a stored access expiry in the past and a
\* present, non-expired refresh token
C2_Case ==
    /\ GuardRan
    /\ last.pre.token_expires_on # NoneTime
    /\ last.pre.token_expires_on < last.t_start
    /\ HadUsableRefreshToken

\* C2 as stated: in that case exactly one refresh-grant POST is sent, and
\* after the guard returns the stored access expiry is later than the clock.
C2_AsStated ==
    C2_Case
    => /\ Cardinality(RefreshPosts) = 1
       /\ (last.exc = "" => token_expires_on > now)

\* C2 as amended: in that case exactly one refresh-grant POST is sent, and
\* after the guard returns the stored access expiry is the expires_on of the
\* token response the run stored (later than the clock only if the server
\* sent such a value).
C2_RefreshOnceAndExpiryStored ==
    C2_Case
    => /\ Cardinality(RefreshPosts) = 1
       /\ (last.exc = ""
             => token_expires_on = ExpiresOnNumber(last.token_response.expires_on))

\* the guard refreshed an expired access token and the new expiry is ahead
C2_Witness ==
    /\ C2_Case
    /\ last.exc = ""
    /\ Cardinality(RefreshPosts) = 1
    /\ Len(AuthLog) = 1
    /\ token_expires_on > now

\* C3: when the access token is not valid, the recorded refresh expiry has
\* passed and there is no email/password, the guard fails with
\* AuthenticationException and the call sends no HTTP request at all.
C3_ExpiredRefreshNoCredentials ==
    ( /\ GuardRan
      /\ ~(last.pre.token_expires_on # NoneTime
             /\ last.pre.token_expires_on > last.t_start)
      /\ last.pre.refresh_token # None /\ last.pre.refresh_token # ""
      /\ last.pre.refresh_token_expires_on # NoneTime
      /\ last.pre.refresh_token_expires_on <= last.t_start
      /\ ~HadCredentials )
    => /\ last.exc = "AuthenticationException"
       /\ last.reqs = <<>>

\* such a call happened: a refresh token past its recorded expiry, no credentials
C3_Witness ==
    /\ GuardRan
    /\ last.pre.refresh_token = "R1"
    /\ last.pre.refresh_token_expires_on # NoneTime
    /\ last.pre.refresh_token_expires_on <= last.t_start
    /\ ~HadCredentials
    /\ last.exc = "AuthenticationException"

\* C4: a run of the Authenticator sends the refresh POST if and only if a
\* refresh token is stored and (no refresh expiry is recorded or the recorded
\* one is later than the clock).
C4_RefreshAttemptedIff ==
    last.ran => (RefreshPosts # {} <=> HadUsableRefreshToken)

\* a refresh was attempted with a recorded expiry that was still ahead
C4_Witness ==
    /\ last.ran
    /\ RefreshPosts # {}
    /\ last.pre.refresh_token_expires_on # NoneTime
    /\ last.pre.refresh_token_expires_on > last.t_start

\* C5: when the refresh POST returns a status other than 200 the four token
\* fields are set to absent; then the credential login runs if email and
\* password are available, otherwise the run fails with
\* AuthenticationException.  (That the fields were cleared shows in what is
\* stored afterwards: nothing, or only what a later login response carried.)
C5_RefreshRejected ==
    RefreshRejected
    => IF HadCredentials
       THEN /\ Len(AuthLog) >= 2
            /\ AuthLog[2].req.ep = "authorize"
            /\ phase = "ready"
                 => IF \/ last.token_response = NoneResponse
                       \/ "access_token" \notin last.token_response.keys
                    THEN TokensAbsent
                    ELSE refresh_token =
                           IF "refresh_token" \in last.token_response.keys
                           THEN last.token_response.refresh_token
                           ELSE None
       ELSE /\ last.exc = "AuthenticationException"
            /\ Len(AuthLog) = 1
            /\ TokensAbsent

\* a rejected refresh was followed by a credential login whose response had no
\* refresh_token: no refresh token is stored
C5_Witness ==
    /\ RefreshRejected
    /\ HadCredentials
    /\ last.exc = ""
    /\ "refresh_token" \notin last.token_response.keys
    /\ refresh_token = None

\* a run of the Authenticator ended without an exception
AuthSucceeded == last.ran /\ last.exc = ""

\* C6 as stated: after a successful run the stored access token is the
\* response's access_token, the stored refresh token is the response's
\* refresh_token or else the one stored before the run started, the stored
\* access expiry is the response's expires_on, and the bearer header is
\* "Bearer " followed by the new access token.
C6_AsStated ==
    AuthSucceeded
    => /\ access_token = last.token_response.access_token
       /\ refresh_token =
            IF "refresh_token" \in last.token_response.keys
            THEN last.token_response.refresh_token
            ELSE last.pre.refresh_token
       /\ token_expires_on = ExpiresOnNumber(last.token_response.expires_on)
       /\ Authorization = "Bearer " \o last.token_response.access_token

\* C6 as amended: as stated, except that a response without refresh_token
\* leaves the refresh token as it is when the response is stored (the one
\* from before the run, or absent when a rejected refresh of this run cleared
\* it), and that the bearer header is rewritten only for a non-empty access
\* token and otherwise stays as it was.
C6_TokenResponseStored ==
    AuthSucceeded
    => /\ access_token = last.token_response.access_token
       /\ refresh_token =
            IF "refresh_token" \in last.token_response.keys
            THEN last.token_response.refresh_token
            ELSE IF RefreshRejected THEN None ELSE last.pre.refresh_token
       /\ token_expires_on = ExpiresOnNumber(last.token_response.expires_on)
       /\ Authorization =
            IF last.token_response.access_token # ""
            THEN "Bearer " \o last.token_response.access_token
            ELSE last.pre.Authorization

\* a refresh answered without refresh_token: the old refresh token is kept and
\* the header carries the new access token
C6_Witness ==
    /\ AuthSucceeded
    /\ RefreshPosts # {}
    /\ "refresh_token" \notin last.token_response.keys
    /\ refresh_token = "R0"
    /\ last.pre.Authorization = "Bearer A0"
    /\ Authorization = "Bearer A1"

\* C7: after every successful authentication the stored refresh expiry is the
\* time of that authentication plus 6 hours, whatever the response holds.
C7_RefreshExpirySixHours ==
    AuthSucceeded => refresh_token_expires_on = last.t_end + 6

\* an authentication whose requests took time, with an expires_on that is not
\* the refresh expiry
C7_Witness ==
    /\ AuthSucceeded
    /\ last.t_end > last.t_start
    /\ refresh_token_expires_on = last.t_end + 6
    /\ token_expires_on # refresh_token_expires_on

\* the response that ended the requests to the login service
LastAuthExchange == AuthLog[Len(AuthLog)]

\* C8 as stated: when the guard's re-authentication fails, the operation
\* raises AuthenticationException and sends no Device API request.
C8_AsStated ==
    (GuardRan /\ last.exc # "")
    => /\ last.exc = "AuthenticationException"
       /\ DeviceRequests = {}

\* C8 as amended: when the guard's re-authentication fails, the operation
\* ends with the exception of the Authenticator and sends no Device API
\* request; the exception is AuthenticationException, or NetworkException when
\* the login stopped at the authorize response or at an unparseable token
\* response, or an untyped error when a 200 response lacked the SETTINGS
\* marker or the token JSON was malformed.
C8_GuardFailurePropagates ==
    (GuardRan /\ last.exc # "")
    => /\ last.ran
       /\ DeviceRequests = {}
       /\ \/ last.exc = "AuthenticationException"
          \/ /\ last.exc = "NetworkException"
             /\ Len(AuthLog) >= 1
             /\ \/ LastAuthExchange.req.ep = "authorize"
                \/ /\ LastAuthExchange.req.ep = "token"
                   /\ LastAuthExchange.req.grant_type = "authorization_code"
                   /\ LastAuthExchange.resp.status_code = 200
                   /\ ~LastAuthExchange.resp.parseable
          \/ /\ last.exc \in {"KeyError", "ValueError", "IndexError"}
             /\ Len(AuthLog) >= 1
             /\ LastAuthExchange.resp.status_code = 200
             /\ \/ /\ LastAuthExchange.req.ep = "authorize"
                   /\ ~LastAuthExchange.resp.has_marker
                \/ /\ LastAuthExchange.req.ep = "token"
                   /\ LastAuthExchange.resp.parseable

\* an operation whose guard failed with NetworkException at the authorize step
C8_Witness ==
    /\ GuardRan
    /\ last.exc = "NetworkException"
    /\ Len(AuthLog) >= 1
    /\ LastAuthExchange.req.ep = "authorize"
    /\ LastAuthExchange.resp.status_code # 200
    /\ DeviceRequests = {}

\* C9: every run of the Authenticator ends Authenticated with the access token
\* and the access expiry populated, or Failed with AuthenticationException or
\* NetworkException; no other error escapes, whatever the servers answer.
C9_OnlyTypedOutcomes ==
    last.ran
    => \/ /\ last.exc = ""
          /\ access_token # None
          /\ token_expires_on # NoneTime
       \/ last.exc \in {"AuthenticationException", "NetworkException"}

\* an authorize response that the login cannot use: a status other than 200,
\* or no SETTINGS marker, or a blob that is not JSON, has no transId, has a
\* transId without "=", or has no csrf
UnusableAuthorizeResponse(r) ==
    \/ r.status_code # 200
    \/ ~r.has_marker
    \/ ~r.parseable
    \/ "transId" \notin r.settings.keys
    \/ \A i \in 1..Len(r.settings.transId) : r.settings.transId[i] # "="
    \/ "csrf" \notin r.settings.keys

\* C10: such an authorize response makes the login fail with
\* NetworkException, and no self-asserted, confirm or token request follows.
C10_UnusableAuthorizeIsNetworkException ==
    \A i \in 1..Len(last.reqs) :
        ( /\ last.reqs[i].req.ep = "authorize"
          /\ UnusableAuthorizeResponse(last.reqs[i].resp) )
        => /\ last.exc = "NetworkException"
           /\ i = Len(last.reqs)

\* the positions, among the requests of the call, of those sent to endpoint ep
RequestsTo(ep) == { i \in 1..Len(last.reqs) : last.reqs[i].req.ep = ep }

\* the self-asserted response r reports wrong credentials
SelfAssertedRejected(r) == r.status_code # 200 \/ r.status_400_marker

\* C11: a self-asserted response with a status other than 200, or with status
\* 200 and the status-400 marker in its body, ends the login with
\* AuthenticationException and no further request; a 200 response without the
\* marker never does: the confirm request follows it.
C11_SelfAssertedRejection ==
    \A i \in RequestsTo("self_asserted") :
        IF SelfAssertedRejected(last.reqs[i].resp)
        THEN /\ last.exc = "AuthenticationException"
             /\ i = Len(last.reqs)
        ELSE /\ i < Len(last.reqs)
             /\ last.reqs[i + 1].req.ep = "confirm"

\* a login that a 200 response holding the marker ended
C11_Witness ==
    \E i \in RequestsTo("self_asserted") :
        /\ last.reqs[i].resp.status_code = 200
        /\ last.reqs[i].resp.status_400_marker
        /\ last.exc = "AuthenticationException"

\* the positions of the POSTs that redeem an authorization code
AuthorizationCodePosts ==
    { i \in RequestsTo("token") : last.reqs[i].req.grant_type = "authorization_code" }

\* C12: in the credential login a token response with a status other than 200
\* ends the login with AuthenticationException and a 200 response that is not
\* JSON ends it with NetworkException; in both cases nothing of that response
\* is stored: on an existing object the bearer header is as before the call
\* and the token fields are as before the call, or absent when a rejected
\* refresh of the same run cleared them.
C12_TokenStepFailure ==
    \A i \in AuthorizationCodePosts :
        LET r == last.reqs[i].resp
        IN  (r.status_code # 200 \/ ~r.parseable)
            => /\ last.exc = IF r.status_code # 200 THEN "AuthenticationException"
                                                    ELSE "NetworkException"
               /\ i = Len(last.reqs)
               /\ last.token_response = NoneResponse
               /\ GuardRan
                  => /\ Authorization = last.pre.Authorization
                     /\ authenticated = last.pre.authenticated
                     /\ IF RefreshRejected
                        THEN TokensAbsent
                        ELSE /\ access_token = last.pre.access_token
                             /\ refresh_token = last.pre.refresh_token
                             /\ token_expires_on = last.pre.token_expires_on
                             /\ refresh_token_expires_on =
                                    last.pre.refresh_token_expires_on

\* an operation on an object holding tokens whose login ended at a token
\* response that is no JSON
C12_Witness ==
    /\ GuardRan
    /\ last.pre.access_token = "A1"
    /\ access_token = "A1"
    /\ last.exc = "NetworkException"
    /\ \E i \in AuthorizationCodePosts :
          /\ last.reqs[i].resp.status_code = 200
          /\ ~last.reqs[i].resp.parseable

\* C13: a request to the authorize or the self-asserted endpoint is sent only
\* by an object that was given a non-empty email and a non-empty password.
C13_CredentialLoginNeedsCredentials ==
    (RequestsTo("authorize") \cup RequestsTo("self_asserted")) # {}
    => HadCredentials

\* an object without a usable email, with no valid token left, was asked to
\* authenticate and sent nothing to the login pages
C13_Witness ==
    /\ GuardRan
    /\ last.ran
    /\ last.pre.email = ""
    /\ last.pre.password = "pw"
    /\ last.exc = "AuthenticationException"
    /\ RequestsTo("authorize") = {}

\* the refresh POST of the call was answered with a token response (status 200
\* and a JSON body)
RefreshSucceeded ==
    \E i \in RefreshPosts :
        last.reqs[i].resp.status_code = 200 /\ last.reqs[i].resp.parseable

\* the positions of the requests that belong to the credential login
CredentialRequests ==
    RequestsTo("authorize") \cup RequestsTo("self_asserted")
        \cup RequestsTo("confirm") \cup AuthorizationCodePosts

\* C14: a run whose refresh attempt produced a token response sends no
\* request of the credential login, and a refresh POST of a run comes before
\* every request of the credential login of that run.
C14_RefreshBeforeCredentials ==
    /\ RefreshSucceeded => CredentialRequests = {}
    /\ \A i \in RefreshPosts : \A j \in CredentialRequests : i < j

\* an object holding both a refresh token and credentials whose refresh
\* succeeded
C14_Witness ==
    /\ last.ran
    /\ HadCredentials
    /\ RefreshSucceeded
    /\ last.exc = ""
    /\ CredentialRequests = {}

\* the arguments of the construction named a credential form
GaveCredentials == last.pre.email # None /\ last.pre.password # None
GaveAccessToken == last.pre.access_token # None

\* C20: a construction given auth_url, auth_client_id and auth_redirect_uri
\* is refused with ValueError before any request exactly when neither (email
\* and password) nor an access token is given, a refresh token alone not
\* counting; it succeeds only with a form given, and with both forms given it
\* is not refused.
C20_ConstructionNeedsCredentialForm ==
    (last.op = "init" /\ last.auth_ok)
    => /\ (last.exc = "ValueError" /\ last.reqs = <<>>)
             <=> (~GaveCredentials /\ ~GaveAccessToken)
       /\ last.exc = "" => (GaveCredentials \/ GaveAccessToken)

\* a construction with a refresh token only
C20_Witness ==
    /\ last.op = "init"
    /\ last.auth_ok
    /\ ~GaveCredentials
    /\ ~GaveAccessToken
    /\ last.pre.refresh_token = "R0"
    /\ last.exc = "ValueError"
    /\ last.reqs = <<>>

\* a construction with both forms that was accepted
C20_BothFormsAccepted ==
    /\ last.op = "init"
    /\ GaveCredentials
    /\ GaveAccessToken
    /\ last.exc = ""

\* the object s is as a construction with a non-empty access token leaves it:
\* the given arguments, no expiry recorded, the header "Bearer " followed by
\* that token, the flag set.  What an operation does depends on the object
\* and the clock only, so an operation that starts on such an object is the
\* first operation after such a construction.
AsConstructedWithAccessToken(s) ==
    /\ s.access_token # None /\ s.access_token # ""
    /\ s.token_expires_on = NoneTime
    /\ s.refresh_token_expires_on = NoneTime
    /\ s.Authorization = "Bearer " \o s.access_token
    /\ s.authenticated

\* C21: a construction with an access token sends nothing to the login
\* service and sets authenticated; the first authenticated operation after it
\* sends its Device API request with "Bearer " followed by that token and
\* sends nothing to the token endpoint or the login pages.
C21_AccessTokenUsed ==
    /\ ( /\ last.op = "init"
         /\ last.exc = ""
         /\ last.pre.access_token # None /\ last.pre.access_token # "" )
       => /\ AuthLog = <<>>
          /\ authenticated
          /\ access_token = last.pre.access_token
          /\ Authorization = "Bearer " \o last.pre.access_token
    /\ (GuardRan /\ AsConstructedWithAccessToken(last.pre))
       => /\ AuthLog = <<>>
          /\ Len(last.reqs) = 1
          /\ last.reqs[1].req.ep = "device"
          /\ last.reqs[1].req.Authorization = "Bearer " \o last.pre.access_token

\* C22: when the most recent run of the Authenticator ended in failure, the
\* authenticated flag (what is_authenticated() returns) is False.
C22_FailedRunNotAuthenticated ==
    (GuardRan /\ last.ran /\ last.exc # "") => ~authenticated

\* the part of chars after its first sep
AfterFirst(chars, sep) == SubSeq(chars, FirstIndex(chars, sep) + 1, Len(chars))

\* a token response with access_token, refresh_token and an expires_on that is
\* a number or the decimal string of one
CompleteTokenResponse(r) ==
    /\ r.status_code = 200
    /\ r.parseable
    /\ r.json.keys = {"access_token", "refresh_token", "expires_on"}
    /\ r.json.expires_on.kind = "str" => IsDecimal(r.json.expires_on.chars)

\* C23: in a credential login whose confirm request ended at a URL holding
\* code=C and whose token POST was answered 200 with access_token,
\* refresh_token and expires_on, the self-asserted and the confirm request
\* carry tx = "StateProperties=" followed by the part of transId after its
\* first "=" and the csrf token of the settings, the token POST carries C,
\* and afterwards the stored pair is (access_token, refresh_token), the access
\* expiry is expires_on and the refresh expiry is the clock plus 6.
C23_EndToEndLogin ==
    \A i \in AuthorizationCodePosts :
        ( /\ i > 3
          /\ \E k \in 1..Len(last.reqs[i - 1].resp.url) :
                 last.reqs[i - 1].resp.url[k] = "code="
          /\ CompleteTokenResponse(last.reqs[i].resp) )
        => LET settings == last.reqs[i - 3].resp.settings
               self_asserted == last.reqs[i - 2].req
               confirm == last.reqs[i - 1].req
               json == last.reqs[i].resp.json
           IN  /\ self_asserted.tx
                     = <<"StateProperties=">> \o AfterFirst(settings.transId, "=")
               /\ confirm.tx
                     = <<"StateProperties=">> \o AfterFirst(settings.transId, "=")
               /\ self_asserted.csrf = settings.csrf
               /\ confirm.csrf = settings.csrf
               /\ last.reqs[i].req.code = AfterFirst(last.reqs[i - 1].resp.url, "code=")
               /\ last.exc = ""
               /\ phase = "ready"
                  => /\ access_token = json.access_token
                     /\ refresh_token = json.refresh_token
                     /\ token_expires_on = ExpiresOnNumber(json.expires_on)
                     /\ refresh_token_expires_on = last.t_end + 6

\* C24: the stored access expiry is the integer n whether the token response
\* carries expires_on as the number n or as the decimal string of n.
C24_ExpiresOnTypeInsensitive ==
    AuthSucceeded
    => \A n \in 0..(MaxNow + 3) :
          ( \/ last.token_response.expires_on = IntExpiresOn(n)
            \/ last.token_response.expires_on = StrExpiresOn(StrOfInt(n)) )
          => token_expires_on = n

\* a token response whose expires_on is a string of two digits was stored
C24_Witness ==
    /\ AuthSucceeded
    /\ last.token_response.expires_on.kind = "str"
    /\ Len(last.token_response.expires_on.chars) = 2
    /\ token_expires_on = 10

----------------------------------------------------------------------------
(* Properties of the register layer.  Each is about the call recorded in    *)
(* fetch: the cache before the call is fetch.pre, the cache after it is     *)
(* register_indexes.                                                        *)

\* the descriptors of the fetched group that carry register_name
Named(register_name) == WithRegisterName(fetch.register_data, register_name)

\* get_group_hot_water obtained a group and resolved its two switches
HotWaterResolved == fetch.op = "get_group_hot_water" /\ fetch.fetched

\* the group holds exactly one descriptor with that name and its valueNames
\* has exactly two entries
UniqueBinary(register_name) ==
    /\ Len(Named(register_name)) = 1
    /\ Named(register_name)[1].valueNames.present
    /\ Len(Named(register_name)[1].valueNames.list) = 2

\* the descriptor switch_data is the register of that name with its value
IsSwitchOf(switch_data, register_name) ==
    /\ switch_data.registerId = Named(register_name)[1].registerId
    /\ switch_data.registerValue = Named(register_name)[1].registerValue
    /\ switch_data.registerId # NoneId
    /\ switch_data.registerValue # NoneValue

\* C15 as stated: the switch resolution returns a non-null descriptor exactly
\* when the group holds one descriptor with that name and that descriptor's
\* valueNames has two entries; otherwise it returns the null descriptor.
C15_AsStated ==
    HotWaterResolved
    => /\ fetch.exc = ""
       /\ IF UniqueBinary(REG_HOT_WATER_STATUS)
          THEN IsSwitchOf(fetch.hot_water_switch_data, REG_HOT_WATER_STATUS)
          ELSE fetch.hot_water_switch_data = default_return_object
       /\ IF UniqueBinary(REG__HOT_WATER_BOOST)
          THEN IsSwitchOf(fetch.hot_water_boost_switch_data, REG__HOT_WATER_BOOST)
          ELSE fetch.hot_water_boost_switch_data = default_return_object

\* the unique binary descriptor of that name also has a registerValue
UniqueBinaryWithValue(register_name) ==
    /\ UniqueBinary(register_name)
    /\ Named(register_name)[1].registerValue # NoneValue

\* C15 as amended: the switch resolution returns a non-null descriptor
\* (registerId and integer value) exactly when the group holds one descriptor
\* with that name, that descriptor's valueNames has two entries and its
\* registerValue is present; in every other case it returns the null
\* descriptor with registerId and value absent; it never raises.
C15_SwitchResolution ==
    HotWaterResolved
    => /\ fetch.exc = ""
       /\ IF UniqueBinaryWithValue(REG_HOT_WATER_STATUS)
          THEN IsSwitchOf(fetch.hot_water_switch_data, REG_HOT_WATER_STATUS)
          ELSE fetch.hot_water_switch_data = default_return_object
       /\ IF UniqueBinaryWithValue(REG__HOT_WATER_BOOST)
          THEN IsSwitchOf(fetch.hot_water_boost_switch_data, REG__HOT_WATER_BOOST)
          ELSE fetch.hot_water_boost_switch_data = default_return_object

\* a group whose hot water register is a switch and whose boost register has
\* three valueNames
C15_Witness ==
    /\ HotWaterResolved
    /\ fetch.hot_water_switch_data.registerId = 11
    /\ fetch.hot_water_switch_data.registerValue = 1
    /\ Len(Named(REG__HOT_WATER_BOOST)) = 1
    /\ Len(Named(REG__HOT_WATER_BOOST)[1].valueNames.list) = 3
    /\ fetch.hot_water_boost_switch_data = default_return_object

\* an operation-mode fetch obtained a group and went on to resolve the mode
OperationModeFetched ==
    /\ fetch.op \in {REG_GROUP_OPERATIONAL_OPERATION, REG_GROUP_OPERATIONAL_STATUS}
    /\ fetch.fetched

\* the positions of the entries of d's valueNames, the skipped name apart,
\* whose value is d's current value
MatchingEntries(d) ==
    { i \in 1..Len(d.valueNames.list) :
        /\ d.valueNames.list[i].name \notin REG_OPERATIONMODE_SKIP_VALUES
        /\ d.valueNames.list[i].value = d.registerValue }

\* C16: the operation-mode resolution raises nothing, and it reports a current
\* mode exactly when one descriptor is named REG_OPERATIONMODE and its current
\* value is the value of exactly one entry of its valueNames that is not the
\* skipped one; otherwise it reports the mode unsupported.
C16_OperationModeSupportedIff ==
    OperationModeFetched
    => /\ fetch.exc = ""
       /\ fetch.mode.supported
            <=> /\ Len(Named(REG_OPERATIONMODE)) = 1
                /\ Cardinality(MatchingEntries(Named(REG_OPERATIONMODE)[1])) = 1

\* the ordered merge of {value: name} mappings in which a later entry replaces
\* an earlier one with the same value
LastOneWins(operation_modes_list) ==
    { <<operation_modes_list[i].value, operation_modes_list[i].name>> :
        i \in { k \in 1..Len(operation_modes_list) :
                  \A j \in (k + 1)..Len(operation_modes_list) :
                      operation_modes_list[j].value # operation_modes_list[k].value } }

\* C17: the map of a reported mode is the descriptor's valueNames without the
\* skipped entry, merged by value with the last one winning, and the reported
\* current mode is the name that map holds for the current value.
C17_LastOneWinsMap ==
    (OperationModeFetched /\ fetch.exc = "" /\ fetch.mode.supported)
    => LET d == Named(REG_OPERATIONMODE)[1]
           m == LastOneWins(OperationModesList(d.valueNames.list))
       IN  /\ fetch.mode.available = m
           /\ <<d.registerValue, fetch.mode.current>> \in m

\* the registerId the switch resolution gives for that name on the fetched
\* group: the unique binary descriptor's, or None
ResolvedSwitchId(register_name) ==
    IF UniqueBinaryWithValue(register_name)
    THEN Named(register_name)[1].registerId
    ELSE NoneId

\* the status of the Device API response of the recorded call
DeviceStatus == last.reqs[Len(last.reqs)].resp.status_code

\* C18: after every fetch of the hot-water group that returns, a status other
\* than 200 included, both cached hot-water indexes are the registerIds that
\* fetch resolved, None where it resolved the switch as unsupported, whatever
\* the cache held before; the cached operation mode index is left alone.
C18_HotWaterIndexesRefreshed ==
    HotWaterResolved
    => /\ register_indexes.hot_water_switch = ResolvedSwitchId(REG_HOT_WATER_STATUS)
       /\ register_indexes.hot_water_boost_switch = ResolvedSwitchId(REG__HOT_WATER_BOOST)
       /\ register_indexes.operation_mode = fetch.pre.operation_mode
       /\ DeviceStatus # 200
          => /\ register_indexes.hot_water_switch = NoneId
             /\ register_indexes.hot_water_boost_switch = NoneId

\* indexes seen by an earlier fetch are gone after a fetch that was answered
\* with a status other than 200
C18_Witness ==
    /\ HotWaterResolved
    /\ fetch.pre.hot_water_switch = 11
    /\ fetch.pre.hot_water_boost_switch = 12
    /\ DeviceStatus # 200
    /\ register_indexes.hot_water_switch = NoneId
    /\ register_indexes.hot_water_boost_switch = NoneId

\* C19: after every fetch of an operation-mode group that returns, the cached
\* operation_mode index is the registerId of the REG_OPERATIONMODE descriptor
\* when the fetch reports a mode, and None when it reports the mode
\* unsupported.
C19_OperationModeIndexRefreshed ==
    (OperationModeFetched /\ fetch.exc = "")
    => register_indexes.operation_mode =
          IF fetch.mode.supported
          THEN Named(REG_OPERATIONMODE)[1].registerId
          ELSE NoneId

\* the setters and the cached index each of them writes to
WriteOps ==
    {"set_temperature", "set_operation_mode", "set_hot_water_switch_state",
     "set_hot_water_boost_switch_state"}

CachedIndex(op) ==
    CASE op = "set_temperature" -> fetch.pre.temperature
      [] op = "set_operation_mode" -> fetch.pre.operation_mode
      [] op = "set_hot_water_switch_state" -> fetch.pre.hot_water_switch
      [] op = "set_hot_water_boost_switch_state" -> fetch.pre.hot_water_boost_switch

\* the device's map of available modes holds the mode asked for
RequestedModeAvailable ==
    \E i \in 1..Len(fetch.available_operation_mode_map) :
        fetch.available_operation_mode_map[i][2] = fetch.requested_mode

\* C26: a setter sends no register-write POST when the cached index of its
\* capability is absent; set_operation_mode sends none either when the
\* operation mode is read-only or the mode asked for is not in the device's
\* map; and the registerSpecificationId of a write that is sent is the cached
\* index.
C26_UnsupportedWritesNotSent ==
    fetch.op \in WriteOps
    => /\ CachedIndex(fetch.op) = NoneId => DeviceRequests = {}
       /\ ( /\ fetch.op = "set_operation_mode"
            /\ (fetch.is_operation_mode_read_only \/ ~RequestedModeAvailable) )
          => DeviceRequests = {}
       /\ DeviceRequests # {}
          => /\ fetch.register_index = CachedIndex(fetch.op)
             /\ fetch.register_index # NoneId

\* an operation mode index is cached and the device is writable, but the mode
\* asked for is not in its map: nothing is sent
C26_Witness ==
    /\ fetch.op = "set_operation_mode"
    /\ fetch.pre.operation_mode = 21
    /\ ~fetch.is_operation_mode_read_only
    /\ fetch.available_operation_mode_map # <<>>
    /\ ~RequestedModeAvailable
    /\ last.reqs = <<>>

\* a write to the hot water switch went out to the cached index
C26_WriteSent ==
    /\ fetch.op = "set_hot_water_switch_state"
    /\ DeviceRequests # {}
    /\ fetch.register_index = 11

\* the ends the session's own constructor has for the arguments of the
\* recorded construction when the authentication parameters are given
SessionConstructions ==
    UNION { ThermiaAPIInit(TRUE, last.pre.email, last.pre.password,
                           last.pre.access_token, last.pre.refresh_token,
                           [status_code |-> status], last.t_start) :
              status \in StatusCodes }

\* C28: constructing the Thermia client with a username and password, with
\* an access token, or with both, creates the ThermiaAPI session from those
\* arguments: the construction fails only where the session's constructor
\* fails; after a successful construction the session holds the arguments,
\* connected is the session's authenticated flag and heat_pumps holds one
\* object per listed device.
C28_ThermiaCreatesSession ==
    (last.op = "thermia_init" /\ (GaveCredentials \/ GaveAccessToken))
    => /\ last.exc \in { c.exc : c \in SessionConstructions }
       /\ last.exc = ""
          => /\ phase = "ready"
             /\ email = last.pre.email
             /\ password = last.pre.password
             /\ last.connected = authenticated
             /\ last.heat_pumps \in {"one per device", "empty"}

\* the step of the Authenticator to which a request belongs
StepOf(x) ==
    IF x.req.ep = "token"
    THEN IF x.req.grant_type = "refresh_token" THEN "refresh" ELSE "code"
    ELSE x.req.ep

\* the response with which each step is accepted: authorize 200 with
\* parseable settings, self-asserted 200 without the marker
AuthorizeAccepted(r) ==
    /\ r.status_code = 200 /\ r.has_marker /\ r.parseable
    /\ {"transId", "csrf"} \subseteq r.settings.keys
    /\ \E k \in 1..Len(r.settings.transId) : r.settings.transId[k] = "="

SelfAssertedAccepted(r) == r.status_code = 200 /\ ~r.status_400_marker

\* the confirm step completed successfully: its final URL carries code=
ConfirmCompleted(r) == \E k \in 1..Len(r.url) : r.url[k] = "code="

\* the confirm request came back with a response; neither its status nor its
\* final URL is looked at before the token request
ConfirmReturned(r) == r \in ConfirmResponses

\* the order of the requests of one Authenticator run, each sent at most once
\* and never after a rejected step of the credential login; code_required
\* says whether the confirm response must deliver the code for the token
\* request to follow, or need only have come back
ProtocolOrder(code_required) ==
    LET A == AuthLog
        n == Len(A)
        K == [i \in 1..n |-> StepOf(A[i])]
    IN  /\ \A i, j \in 1..n : K[i] = K[j] => i = j
        /\ \A i \in 1..n :
              CASE K[i] = "refresh" -> i = 1
                [] K[i] = "authorize" -> i = 1 \/ (i = 2 /\ K[1] = "refresh")
                [] K[i] = "self_asserted" ->
                      /\ i > 1
                      /\ K[i - 1] = "authorize"
                      /\ AuthorizeAccepted(A[i - 1].resp)
                [] K[i] = "confirm" ->
                      /\ i > 1
                      /\ K[i - 1] = "self_asserted"
                      /\ SelfAssertedAccepted(A[i - 1].resp)
                [] K[i] = "code" ->
                      /\ i > 1
                      /\ K[i - 1] = "confirm"
                      /\ IF code_required
                         THEN ConfirmCompleted(A[i - 1].resp)
                         ELSE ConfirmReturned(A[i - 1].resp)
                      /\ i = n
        /\ \A i \in 1..n :
              ( \/ K[i] = "authorize" /\ ~AuthorizeAccepted(A[i].resp)
                \/ K[i] = "self_asserted" /\ ~SelfAssertedAccepted(A[i].resp) )
              => i = n

C29_OrderWithCodeDelivered == ProtocolOrder(TRUE)

C30_AbsentCodeFails ==
    \A i \in AuthorizationCodePosts :
        ( /\ i > 1
          /\ last.reqs[i - 1].req.ep = "confirm"
          /\ ~ConfirmCompleted(last.reqs[i - 1].resp) )
        => /\ last.reqs[i].req.code = <<>>
           /\ last.exc # ""

\* the part of C30 that holds: an absent code= is posted as the empty string
C30_AbsentCodePostedEmpty ==
    \A i \in AuthorizationCodePosts :
        ( /\ i > 1
          /\ last.reqs[i - 1].req.ep = "confirm"
          /\ ~ConfirmCompleted(last.reqs[i - 1].resp) )
        => last.reqs[i].req.code = <<>>

\* a login that posted the empty code and was answered with tokens: the
\* session is authenticated with them
C30_AuthenticatedWithoutCode ==
    /\ \E i \in AuthorizationCodePosts : last.reqs[i].req.code = <<>>
    /\ last.exc = ""
    /\ phase = "ready"
    /\ authenticated
    /\ access_token = "A1"

\* a register write whose POST was answered with a status other than 200
FailedWrite ==
    /\ last.op = "set_register_value"
    /\ DeviceRequests # {}
    /\ DeviceStatus # 200

\* C27 as stated: a register write whose POST returns a status other than 200
\* returns without raising and leaves the token fields, the bearer header and
\* the register-index cache as they were before the write operation.
C27_AsStated ==
    FailedWrite
    => /\ last.exc = ""
       /\ Self = last.pre
       /\ register_indexes = NoRegisterIndexes

\* C27 as amended: a register write whose POST returns a status other than 200
\* returns without raising, the POST is sent once, and the token fields and
\* the bearer header are as the token-validity guard of that write left them:
\* unchanged when the guard passed through, and as the stored token response
\* gives them when the guard re-authenticated before the POST; the header of
\* the POST is the one the object still holds, and the register-index cache is
\* unchanged.
C27_FailedWriteSwallowed ==
    FailedWrite
    => /\ last.exc = ""
       /\ Cardinality(DeviceRequests) = 1
       /\ last.reqs[Len(last.reqs)].req.Authorization = Authorization
       /\ email = last.pre.email
       /\ password = last.pre.password
       /\ ~last.ran => Self = last.pre
       /\ last.ran
          => /\ authenticated
             /\ access_token = last.token_response.access_token
             /\ token_expires_on = ExpiresOnNumber(last.token_response.expires_on)
             /\ refresh_token_expires_on = last.t_end + REFRESH_TOKEN_LIFETIME
             /\ refresh_token =
                  IF "refresh_token" \in last.token_response.keys
                  THEN last.token_response.refresh_token
                  ELSE IF RefreshRejected THEN None ELSE last.pre.refresh_token
       /\ register_indexes = NoRegisterIndexes

\* a failed write whose guard had refreshed the access token before the POST
C27_Witness ==
    /\ FailedWrite
    /\ last.ran
    /\ last.exc = ""
    /\ last.pre.access_token = "A0"
    /\ access_token = "A1"
    /\ last.reqs[Len(last.reqs)].req.Authorization = "Bearer A1"

\* a failed write whose guard passed through
C27_FailedWriteUnchanged ==
    /\ FailedWrite
    /\ ~last.ran
    /\ Self = last.pre

\* in the register layer: the setters leave the cache of register indexes as
\* it was, whatever the status of the POST
C27_SettersKeepRegisterIndexes ==
    fetch.op \in WriteOps => register_indexes = fetch.pre

\* the text that follows "Bearer " for a stored access token
BearerOf(token) == "Bearer " \o (IF token = None THEN "" ELSE token)

\* C31: every Device API request that is sent carries the Authorization
\* header "Bearer " followed by the access token the session stores at the
\* moment of sending (nothing when no token is stored); a token that was
\* cleared or replaced is never sent.
C31_BearerConsistency ==
    \A i \in DeviceRequests :
        last.reqs[i].req.Authorization = BearerOf(access_token)

\* the part of C31 that holds: a stored access token that is not empty is the
\* one every Device API request carries
C31_NonEmptyTokenIsSent ==
    \A i \in DeviceRequests :
        Truthy(access_token)
        => last.reqs[i].req.Authorization = "Bearer " \o access_token

\* a Device API request that carried a token the session no longer stores
C31_ReplacedTokenSent ==
    /\ DeviceRequests # {}
    /\ last.exc = ""
    /\ ~Truthy(access_token)
    /\ last.reqs[Len(last.reqs)].req.Authorization \in {"Bearer A0", "Bearer A1"}

\* C32: after an Authenticator run in which a refresh was attempted and that
\* ended in failure, no token remains stored: access token, refresh token and
\* both expiries are absent, whether the refresh was answered with a status
\* other than 200 or with a 200 whose body cannot be parsed.
C32_FailedRefreshLeavesNoToken ==
    (GuardRan /\ last.ran /\ RefreshPosts # {} /\ last.exc # "")
    => TokensAbsent

\* the part of C32 that holds: a refresh answered with a status other than 200
\* in a run that ended with AuthenticationException or NetworkException
C32_RejectedRefreshLeavesNoToken ==
    ( /\ GuardRan
      /\ RefreshRejected
      /\ last.exc \in {"AuthenticationException", "NetworkException"} )
    => TokensAbsent

\* a refresh answered 200 with a body that is no JSON, no credentials to fall
\* back on: the run fails and the tokens that were stored before it remain
C32_TokensKeptAfterFailure ==
    /\ GuardRan /\ last.ran
    /\ Len(last.reqs) = 1
    /\ RefreshPosts = {1}
    /\ last.reqs[1].resp.status_code = 200
    /\ ~last.reqs[1].resp.parseable
    /\ last.exc = "AuthenticationException"
    /\ access_token = last.pre.access_token
    /\ Truthy(access_token)
    /\ refresh_token = last.pre.refresh_token
    /\ Truthy(refresh_token)

\* the call was update_tokens(a, r)
UpdatedTokens == last.op = "update_tokens"

\* an object as a call update_tokens(a) leaves it: a is stored, the header is
\* written for it and the authenticated flag is set
AsUpdateTokensLeaves(s) == s = UpdateTokensResult(s, s.access_token, None)

\* C33: update_tokens(a, r) stores a as the access token, replaces the stored
\* refresh token by r only when r is given and not empty, sets the bearer
\* header to "Bearer " followed by a and the authenticated flag to True, and
\* leaves both expiries unchanged; get_tokens() right afterwards returns a and
\* the current refresh token; and the requests of the next authenticated
\* operation carry a as bearer.
C33_UpdateTokens ==
    /\ UpdatedTokens
       => /\ access_token = last.args.access_token
          /\ refresh_token = IF Truthy(last.args.refresh_token)
                             THEN last.args.refresh_token
                             ELSE last.pre.refresh_token
          /\ Authorization = BearerOf(last.args.access_token)
          /\ authenticated
          /\ token_expires_on = last.pre.token_expires_on
          /\ refresh_token_expires_on = last.pre.refresh_token_expires_on
          /\ GetTokens(Self) = <<last.args.access_token, refresh_token>>
    /\ (GuardRan /\ AsUpdateTokensLeaves(last.pre))
       => \A i \in DeviceRequests :
             last.reqs[i].req.Authorization = BearerOf(last.pre.access_token)

\* the part of C33 that holds: the fields update_tokens(a, r) writes, with the
\* header rewritten only for an a that is not empty, and the pair get_tokens()
\* returns afterwards
C33_UpdateTokensFields ==
    UpdatedTokens
    => /\ access_token = last.args.access_token
       /\ refresh_token = IF Truthy(last.args.refresh_token)
                          THEN last.args.refresh_token
                          ELSE last.pre.refresh_token
       /\ Authorization = IF Truthy(last.args.access_token)
                          THEN "Bearer " \o last.args.access_token
                          ELSE last.pre.Authorization
       /\ authenticated
       /\ token_expires_on = last.pre.token_expires_on
       /\ refresh_token_expires_on = last.pre.refresh_token_expires_on
       /\ email = last.pre.email /\ password = last.pre.password
       /\ GetTokens(Self) = <<last.args.access_token, refresh_token>>

\* the operation after update_tokens("A0"): the access expiry was not
\* touched, the guard refreshed, and the request carried the new token
C33_UpdatedTokenNotSent ==
    /\ GuardRan
    /\ AsUpdateTokensLeaves(last.pre)
    /\ last.pre.access_token = "A0"
    /\ last.exc = ""
    /\ DeviceRequests # {}
    /\ last.reqs[Len(last.reqs)].req.Authorization = "Bearer A1"

\* the fetched group holds exactly one REG_OPERATIONMODE descriptor
UniqueOperationMode ==
    OperationModeFetched /\ Len(Named(REG_OPERATIONMODE)) = 1

\* d's registerValue is absent
ValueAbsent(d) == d.registerValue = NoneValue

\* d's valueNames holds a name that does not start with the prefix
ForeignName(d) ==
    /\ d.valueNames.present
    /\ \E i \in 1..Len(d.valueNames.list) : ~HasModePrefix(d.valueNames.list[i])

\* C34: for a unique REG_OPERATIONMODE descriptor whose registerValue is
\* absent, or whose valueNames holds a name without the
\* REG_VALUE_OPERATION_MODE_ prefix, the operation-mode resolution does not
\* raise: it reports the mode unsupported, or the mode its current value maps
\* to.
C34_DescriptorShapesTolerated ==
    ( /\ UniqueOperationMode
      /\ \/ ValueAbsent(Named(REG_OPERATIONMODE)[1])
         \/ ForeignName(Named(REG_OPERATIONMODE)[1]) )
    => /\ fetch.exc = ""
       /\ fetch.mode.supported
            => Cardinality(MatchingEntries(Named(REG_OPERATIONMODE)[1])) = 1

\* the part of C34 that holds: a unique descriptor with a registerValue and
\* with prefixed names only, valueNames absent included, resolves without
\* raising
C34_OtherShapesResolve ==
    ( /\ UniqueOperationMode
      /\ ~ValueAbsent(Named(REG_OPERATIONMODE)[1])
      /\ ~ForeignName(Named(REG_OPERATIONMODE)[1]) )
    => fetch.exc = ""

\* an absent registerValue ended the resolution with TypeError
C34_AbsentValueRaises ==
    /\ UniqueOperationMode
    /\ ValueAbsent(Named(REG_OPERATIONMODE)[1])
    /\ fetch.exc = "TypeError"

\* a name without the prefix ended the resolution with IndexError
C34_ForeignNameRaises ==
    /\ UniqueOperationMode
    /\ ~ValueAbsent(Named(REG_OPERATIONMODE)[1])
    /\ ForeignName(Named(REG_OPERATIONMODE)[1])
    /\ fetch.exc = "IndexError"

\* both concurrent calls have returned without an exception
BothCompleted == \A p \in Callers : callers[p].pc = "done"

\* the token responses the callers stored
StoredResponses ==
    { callers[p].token_response : p \in { q \in Callers :
                                            callers[q].token_response # NoneResponse } }

\* C35: when two callers run authenticated operations on one session while
\* the access token is expired, then whenever both calls have completed
\* successfully the stored access token, the stored access expiry and the
\* bearer header come from one and the same token response, and the refresh
\* token each refresh POST carried is the one the session stored when the
\* POST went out.
C35_TokenPairCoherent ==
    /\ BothCompleted
       => \E r \in StoredResponses :
             /\ access_token = r.access_token
             /\ token_expires_on = ExpiresOnNumber(r.expires_on)
             /\ Authorization = "Bearer " \o r.access_token
    /\ \A p \in Callers :
          callers[p].pc \notin {"idle", "check_token_validity", "authenticate",
                                "refresh", "request_token_data", "post"}
          => callers[p].request_token_data = callers[p].stored_at_post

\* both calls completed, and the session holds the access token of one
\* response with the expiry of the other
C35_MixedTokenPair ==
    /\ BothCompleted
    /\ access_token = "A2"
    /\ Authorization = "Bearer A2"
    /\ token_expires_on = ConcNow + 3

\* a refresh POST carried a refresh token that the other caller had replaced
\* in the meantime
C35_ReplacedRefreshTokenPosted ==
    \E p \in Callers :
       /\ callers[p].request_token_data = "R0"
       /\ callers[p].stored_at_post \in {"R1", "R2"}

\* the part of C35 that holds: a call that ran alone and stored a token
\* response leaves the access token, the expiry and the header of that
\* response
C35_CoherentWithoutInterleaving ==
    \A p, q \in Callers :
       ( /\ callers[p].pc = "done"
         /\ callers[q].pc = "idle"
         /\ callers[p].token_response # NoneResponse )
       => /\ access_token = callers[p].token_response.access_token
          /\ token_expires_on = ExpiresOnNumber(callers[p].token_response.expires_on)
          /\ Authorization = "Bearer " \o access_token
          /\ callers[p].Authorization = Authorization
          /\ callers[p].request_token_data = callers[p].stored_at_post

====
